---- MODULE Spec2Model ----
(***************************************************************************)
(* A model of scripts/configure.py: the configuration resolution engine    *)
(* that builds openclaw.json from a bundled override document, a persisted *)
(* document and the process environment.                                   *)
(*                                                                         *)
(* Documents are trees of tagged nodes.  Strings are TLA+ strings and the  *)
(* string functions of the code (rstrip, lower, split, int, startswith)    *)
(* are computed character by character.  A Python exception that no        *)
(* handler of the program catches is the node Raise: every operator that   *)
(* can raise returns it and every caller passes it on.                     *)
(***************************************************************************)
EXTENDS Integers, Sequences, FiniteSets, TLC

(***************************************************************************)
(* Document nodes                                                          *)
(***************************************************************************)
Str(s) == [t |-> "str", s |-> s]
Num(i) == [t |-> "int", i |-> i]
Float(f) == [t |-> "float", f |-> f]
Bool(b) == [t |-> "bool", b |-> b]
List(l) == [t |-> "list", l |-> l]
Map(m) == [t |-> "map", m |-> m]
Null == [t |-> "null"]
Raise == [t |-> "raise"]
EmptyMap == Map(<<>>)

IsMap(n) == n.t = "map"
Has(n, k) == IsMap(n) /\ k \in DOMAIN n.m
Keys(n) == DOMAIN n.m
Put(n, k, v) == Map([x \in (DOMAIN n.m) \cup {k} |-> IF x = k THEN v ELSE n.m[x]])
Del(n, k) == Map([x \in (DOMAIN n.m) \ {k} |-> n.m[x]])

\* Python truth value of a node (bool(x)).
Truthy(n) ==
    CASE n.t = "str" -> n.s # ""
      [] n.t = "int" -> n.i # 0
      [] n.t = "float" -> \E i \in 1..Len(n.f) : SubSeq(n.f, i, i) \in {"1", "2", "3", "4", "5", "6", "7", "8", "9"}
      [] n.t = "bool" -> n.b
      [] n.t = "list" -> n.l # <<>>
      [] n.t = "map" -> DOMAIN n.m # {}
      [] OTHER -> FALSE

\* dict.get(k): the value, or None when the key is missing.
DictGet(n, k) == IF k \in DOMAIN n.m THEN n.m[k] ELSE Null

(***************************************************************************)
(* Strings                                                                 *)
(***************************************************************************)
Ch(s, i) == SubSeq(s, i, i)
UpperChars == "ABCDEFGHIJKLMNOPQRSTUVWXYZ"
LowerChars == "abcdefghijklmnopqrstuvwxyz"
Digits == "0123456789"

IndexIn(c, alphabet) ==
    IF \E i \in 1..Len(alphabet) : Ch(alphabet, i) = c
    THEN CHOOSE i \in 1..Len(alphabet) : Ch(alphabet, i) = c
    ELSE 0

LowerChar(c) == IF IndexIn(c, UpperChars) = 0 THEN c ELSE Ch(LowerChars, IndexIn(c, UpperChars))
UpperChar(c) == IF IndexIn(c, LowerChars) = 0 THEN c ELSE Ch(UpperChars, IndexIn(c, LowerChars))

RECURSIVE Lower(_)
Lower(s) == IF s = "" THEN "" ELSE LowerChar(Ch(s, 1)) \o Lower(SubSeq(s, 2, Len(s)))

StartsWith(s, p) == Len(s) >= Len(p) /\ SubSeq(s, 1, Len(p)) = p
EndsWith(s, p) == Len(s) >= Len(p) /\ SubSeq(s, Len(s) - Len(p) + 1, Len(s)) = p

\* str.rstrip(c) for a one-character c.
RECURSIVE RStrip(_, _)
RStrip(s, c) == IF s # "" /\ Ch(s, Len(s)) = c THEN RStrip(SubSeq(s, 1, Len(s) - 1), c) ELSE s

RECURSIVE LStrip(_, _)
LStrip(s, c) == IF s # "" /\ Ch(s, 1) = c THEN LStrip(SubSeq(s, 2, Len(s)), c) ELSE s

\* str.strip(): the model's strings hold no whitespace other than the blank.
Strip(s) == LStrip(RStrip(s, " "), " ")

\* str.split(sep): the pieces between the occurrences of sep, left to right.
RECURSIVE SplitFrom(_, _, _)
SplitFrom(s, sep, cur) ==
    IF s = "" THEN <<cur>>
    ELSE IF StartsWith(s, sep) THEN <<cur>> \o SplitFrom(SubSeq(s, Len(sep) + 1, Len(s)), sep, "")
    ELSE SplitFrom(SubSeq(s, 2, Len(s)), sep, cur \o Ch(s, 1))
Split(s, sep) == SplitFrom(s, sep, "")

\* str.replace(old, new): non-overlapping occurrences, left to right.
RECURSIVE Replace(_, _, _)
Replace(s, old, new) ==
    IF s = "" THEN ""
    ELSE IF StartsWith(s, old) THEN new \o Replace(SubSeq(s, Len(old) + 1, Len(s)), old, new)
    ELSE Ch(s, 1) \o Replace(SubSeq(s, 2, Len(s)), old, new)

AllDigits(s) == s # "" /\ \A i \in 1..Len(s) : IndexIn(Ch(s, i), Digits) # 0

RECURSIVE DigitsValue(_)
DigitsValue(s) ==
    IF s = "" THEN 0
    ELSE 10 * DigitsValue(SubSeq(s, 1, Len(s) - 1)) + (IndexIn(Ch(s, Len(s)), Digits) - 1)

\* int(raw): surrounding blanks are ignored, one sign is allowed, the rest
\* must be decimal digits; anything else is a ValueError.
IntBody(s) == IF s # "" /\ Ch(s, 1) \in {"-", "+"} THEN SubSeq(s, 2, Len(s)) ELSE s
IsIntLiteral(raw) == AllDigits(IntBody(Strip(raw)))
IntValue(raw) ==
    LET s == Strip(raw)
    IN IF s # "" /\ Ch(s, 1) = "-" THEN 0 - DigitsValue(IntBody(s)) ELSE DigitsValue(IntBody(s))

\* float(raw) accepts, among others, digits '.' digits with a digit on either side.
IsFloatLiteral(raw) ==
    LET s == IntBody(Strip(raw))
        parts == Split(s, ".")
    IN /\ Len(parts) = 2
       /\ parts[1] \o parts[2] # ""
       /\ \A i \in 1..2 : parts[i] = "" \/ AllDigits(parts[i])


\* The characters of environment variable names in code point order: the
\* order sorted() compares strings by.
Ascii == "-.0123456789ABCDEFGHIJKLMNOPQRSTUVWXYZ_abcdefghijklmnopqrstuvwxyz"

RECURSIVE StrLess(_, _)
StrLess(a, b) ==
    IF a = "" THEN b # ""
    ELSE IF b = "" THEN FALSE
    ELSE IF Ch(a, 1) = Ch(b, 1) THEN StrLess(SubSeq(a, 2, Len(a)), SubSeq(b, 2, Len(b)))
    ELSE IndexIn(Ch(a, 1), Ascii) < IndexIn(Ch(b, 1), Ascii)

\* sorted(S) for a set of strings.
RECURSIVE Sorted(_)
Sorted(S) ==
    IF S = {} THEN <<>>
    ELSE LET least == CHOOSE x \in S : \A y \in S \ {x} : StrLess(x, y)
         IN <<least>> \o Sorted(S \ {least})

(***************************************************************************)
(* State                                                                   *)
(***************************************************************************)
VARIABLES
    env,                \* os.environ: a function from the set variables to their values
    custom_file,        \* the file at CUSTOM_CONFIG
    config_file,        \* the file at CONFIG_FILE (persisted before the run, emitted by it)
    caddy_files,        \* the two artifacts under /app/caddy.d
    config,             \* main's config
    has_custom_config,  \* main's has_custom_config
    ollama_url,         \* main's ollama_url
    opencode_key,       \* main's opencode_key
    stderr,             \* the names the diagnostic printed on stderr lists
    loaded,             \* history: config as step 1 left it
    pc,                 \* the step of main that runs next
    exit_code           \* the exit status of the process, -1 while it runs

vars == <<env, custom_file, config_file, caddy_files, config, has_custom_config,
          ollama_url, opencode_key, stderr, loaded, pc, exit_code>>

\* os.environ.get(k) is None
EnvUnset(k) == k \notin DOMAIN env
\* os.environ.get(k, d)
EnvGet(k, d) == IF k \in DOMAIN env THEN env[k] ELSE d
\* bool(os.environ.get(k))
EnvTrue(k) == EnvGet(k, "") # ""

(***************************************************************************)
(* Generic engine                                                          *)
(***************************************************************************)
\* dict.update: the keys of source replace those of target, mappings too.
deep_merge_shallow(target, source) ==
    Map([key \in (DOMAIN target.m) \cup (DOMAIN source.m) |->
            IF key \in DOMAIN source.m THEN source.m[key] ELSE target.m[key]])

\* Arrays concatenated, not replaced.
RECURSIVE deep_merge_concat(_, _)
deep_merge_concat(target, source) ==
    Map([key \in (DOMAIN target.m) \cup (DOMAIN source.m) |->
            IF key \notin DOMAIN source.m THEN target.m[key]
            ELSE IF IsMap(source.m[key]) /\ Has(target, key) /\ IsMap(target.m[key])
                 THEN deep_merge_concat(target.m[key], source.m[key])
                 ELSE IF source.m[key].t = "list" /\ Has(target, key) /\ target.m[key].t = "list"
                      THEN List(target.m[key].l \o source.m[key].l)
                      ELSE source.m[key]])

RECURSIVE deep_merge(_, _)
deep_merge(target, source) ==
    Map([key \in (DOMAIN target.m) \cup (DOMAIN source.m) |->
            IF key \notin DOMAIN source.m THEN target.m[key]
            ELSE IF IsMap(source.m[key]) /\ Has(target, key) /\ IsMap(target.m[key])
                 THEN deep_merge(target.m[key], source.m[key])
                 ELSE source.m[key]])

\* set_nested on the split path.  dict.setdefault returns the node that is at
\* k whatever its type; the next setdefault or the final item assignment on a
\* node that is not a dict raises.
RECURSIVE SetKeys(_, _, _)
SetKeys(obj, keys, value) ==
    IF value = Raise \/ ~IsMap(obj) THEN Raise
    ELSE IF Len(keys) = 1 THEN Put(obj, keys[1], value)
    ELSE LET k == Head(keys)
             sub == SetKeys(IF k \in DOMAIN obj.m THEN obj.m[k] ELSE EmptyMap, Tail(keys), value)
         IN IF sub = Raise THEN Raise ELSE Put(obj, k, sub)

set_nested(obj, dotpath, value) == SetKeys(obj, Split(dotpath, "."), value)

RECURSIVE GetKeys(_, _, _)
GetKeys(obj, keys, default) ==
    IF keys = <<>> THEN obj
    ELSE IF ~IsMap(obj) THEN default
    ELSE IF Head(keys) \notin DOMAIN obj.m THEN default
    ELSE GetKeys(obj.m[Head(keys)], Tail(keys), default)

get_nested(obj, dotpath, default) == GetKeys(obj, Split(dotpath, "."), default)

\* [s.strip() for s in raw.split(",") if s.strip()], the elements typed by Elem.
RECURSIVE CsvItems(_, _)
CsvItems(parts, smart) ==
    IF parts = <<>> THEN <<>>
    ELSE LET s == Strip(Head(parts))
             rest == CsvItems(Tail(parts), smart)
         IN IF s = "" THEN rest
            ELSE IF smart /\ IsIntLiteral(s) THEN <<Num(IntValue(s))>> \o rest
            ELSE <<Str(s)>> \o rest

parse_value(raw, type_hint) ==
    CASE type_hint = "str" -> Str(raw)
      [] type_hint = "int" -> IF IsIntLiteral(raw) THEN Num(IntValue(raw)) ELSE Raise
      [] type_hint = "bool_true" -> Bool(Lower(raw) # "false")
      [] type_hint = "bool_false" -> Bool(Lower(raw) = "true")
      [] type_hint = "csv" -> List(CsvItems(Split(raw, ","), FALSE))
      [] type_hint = "csv_smart" -> List(CsvItems(Split(raw, ","), TRUE))
      [] OTHER -> Str(raw)

\* apply_fields from the i-th mapping on; a field is <<env_var, json_path, type_hint>>.
RECURSIVE ApplyFrom(_, _, _)
ApplyFrom(obj, fields, i) ==
    IF obj = Raise \/ i > Len(fields) THEN obj
    ELSE IF EnvUnset(fields[i][1]) THEN ApplyFrom(obj, fields, i + 1)
    ELSE ApplyFrom(set_nested(obj, fields[i][2], parse_value(env[fields[i][1]], fields[i][3])),
                   fields, i + 1)

apply_fields(obj, fields) == ApplyFrom(obj, fields, 1)

\* json.loads on the structured literals of the model; Raise is JSONDecodeError.
json_loads(raw) ==
    CASE raw = "[]" -> List(<<>>)
      [] raw = "{}" -> EmptyMap
      [] raw = "[1]" -> List(<<Num(1)>>)
      [] raw = "{\"k\":1}" -> Map([x \in {"k"} |-> Num(1)])
      [] OTHER -> Raise

auto_type(raw) ==
    IF Lower(raw) \in {"true", "false"} THEN Bool(Lower(raw) = "true")
    ELSE IF IsIntLiteral(raw) THEN Num(IntValue(raw))
    ELSE IF IsFloatLiteral(raw) THEN Float(Strip(raw))
    ELSE IF (StartsWith(raw, "[") \/ StartsWith(raw, "{")) /\ json_loads(raw) # Raise
         THEN json_loads(raw)
    ELSE Str(raw)

ConventionPrefix == "OPENCLAW_JSON__"

\* The path a convention variable addresses.
ConventionPath(key) == Replace(SubSeq(key, Len(ConventionPrefix) + 1, Len(key)), "__", ".")

\* The matching variables in the reverse of their sorted order.
ConventionKeysReversed ==
    LET keys == Sorted({key \in DOMAIN env : StartsWith(key, ConventionPrefix)})
    IN [i \in 1..Len(keys) |-> keys[Len(keys) + 1 - i]]

ConventionKeys == Sorted({key \in DOMAIN env : StartsWith(key, ConventionPrefix)})

RECURSIVE OverridesFrom(_, _, _)
OverridesFrom(cfg, keys, i) ==
    IF cfg = Raise \/ i > Len(keys) THEN cfg
    ELSE OverridesFrom(set_nested(cfg, ConventionPath(keys[i]), auto_type(env[keys[i]])),
                       keys, i + 1)

\* Overrides that fill in a path only where the document has no value.
RECURSIVE DefaultsFrom(_, _, _)
DefaultsFrom(cfg, keys, i) ==
    IF cfg = Raise \/ i > Len(keys) THEN cfg
    ELSE DefaultsFrom(IF get_nested(cfg, ConventionPath(keys[i]), Raise) # Raise THEN cfg
                      ELSE set_nested(cfg, ConventionPath(keys[i]), auto_type(env[keys[i]])),
                      keys, i + 1)

apply_convention_defaults(cfg) == DefaultsFrom(cfg, ConventionKeys, 1)

apply_convention_overrides(cfg) == OverridesFrom(cfg, ConventionKeys, 1)

RECURSIVE ensure(_, _)
ensure(obj, keys) ==
    IF keys = <<>> THEN obj
    ELSE LET k == Head(keys)
             cur == IF Has(obj, k) /\ IsMap(obj.m[k]) THEN obj.m[k] ELSE EmptyMap
         IN Put(obj, k, ensure(cur, Tail(keys)))

\* del providers[name] when models.providers is a dict that holds name.
DelProvider(cfg, name) ==
    LET providers == get_nested(cfg, "models.providers", Null)
    IN IF IsMap(providers) /\ name \in DOMAIN providers.m
       THEN Put(cfg, "models", Put(cfg.m["models"], "providers", Del(providers, name)))
       ELSE cfg

\* The entry removed whether or not a custom JSON was loaded.
remove_provider_always(cfg, custom, name) == DelProvider(cfg, name)

\* The entry never removed.
remove_provider_never(cfg, custom, name) == cfg

remove_provider(cfg, custom, name) == IF ~custom THEN DelProvider(cfg, name) ELSE cfg

(***************************************************************************)
(* Schema tables                                                           *)
(***************************************************************************)

\* <<env_key, label, provider_key>>
BUILTIN_PROVIDERS == <<
    <<"ANTHROPIC_API_KEY", "Anthropic", "anthropic">>,
    <<"OPENAI_API_KEY", "OpenAI", "openai">>,
    <<"OPENROUTER_API_KEY", "OpenRouter", "openrouter">>,
    <<"GEMINI_API_KEY", "Google Gemini", "google">>,
    <<"XAI_API_KEY", "xAI", "xai">>,
    <<"GROQ_API_KEY", "Groq", "groq">>,
    <<"MISTRAL_API_KEY", "Mistral", "mistral">>,
    <<"CEREBRAS_API_KEY", "Cerebras", "cerebras">>,
    <<"ZAI_API_KEY", "ZAI", "zai">>,
    <<"AI_GATEWAY_API_KEY", "Vercel AI Gateway", "vercel-ai-gateway">>,
    <<"COPILOT_GITHUB_TOKEN", "GitHub Copilot", "github-copilot">> >>

CUSTOM_PROVIDERS == <<
    [key |-> "venice",
     env |-> "VENICE_API_KEY",
     api |-> "openai-completions",
     baseUrl |-> "https://api.venice.ai/api/v1",
     models |-> List(<<Map([id |-> Str("llama-3.3-70b"), name |-> Str("Llama 3.3 70B"), contextWindow |-> Num(128000)])>>)],
    [key |-> "minimax",
     env |-> "MINIMAX_API_KEY",
     api |-> "anthropic-messages",
     baseUrl |-> "https://api.minimax.io/anthropic",
     models |-> List(<<Map([id |-> Str("MiniMax-M2.1"), name |-> Str("MiniMax M2.1"), contextWindow |-> Num(200000)])>>)],
    [key |-> "moonshot",
     env |-> "MOONSHOT_API_KEY",
     api |-> "openai-completions",
     baseUrlEnv |-> "MOONSHOT_BASE_URL",
     baseUrlDefault |-> "https://api.moonshot.ai/v1",
     models |-> List(<<Map([id |-> Str("kimi-k2.5"), name |-> Str("Kimi K2.5"), contextWindow |-> Num(128000)])>>)],
    [key |-> "kimi-coding",
     env |-> "KIMI_API_KEY",
     api |-> "anthropic-messages",
     baseUrlEnv |-> "KIMI_BASE_URL",
     baseUrlDefault |-> "https://api.moonshot.ai/anthropic",
     models |-> List(<<Map([id |-> Str("k2p5"), name |-> Str("Kimi K2P5"), contextWindow |-> Num(128000)])>>)],
    [key |-> "synthetic",
     env |-> "SYNTHETIC_API_KEY",
     api |-> "anthropic-messages",
     baseUrl |-> "https://api.synthetic.new/anthropic",
     models |-> List(<<Map([id |-> Str("hf:MiniMaxAI/MiniMax-M2.1"), name |-> Str("MiniMax M2.1"), contextWindow |-> Num(192000)])>>)],
    [key |-> "xiaomi",
     env |-> "XIAOMI_API_KEY",
     api |-> "anthropic-messages",
     baseUrl |-> "https://api.xiaomimimo.com/anthropic",
     models |-> List(<<Map([id |-> Str("mimo-v2-flash"), name |-> Str("MiMo v2 Flash"), contextWindow |-> Num(262144)])>>)] >>

\* <<signal, model>>
PRIMARY_MODEL_PRIORITY == <<
    <<"ANTHROPIC_API_KEY", "anthropic/claude-opus-4-5-20251101">>,
    <<"OPENAI_API_KEY", "openai/gpt-5.2">>,
    <<"OPENROUTER_API_KEY", "openrouter/anthropic/claude-opus-4-5">>,
    <<"GEMINI_API_KEY", "google/gemini-2.5-pro">>,
    <<"_OPENCODE_KEY", "opencode/claude-opus-4-5">>,
    <<"COPILOT_GITHUB_TOKEN", "github-copilot/claude-opus-4-5">>,
    <<"XAI_API_KEY", "xai/grok-3">>,
    <<"GROQ_API_KEY", "groq/llama-3.3-70b-versatile">>,
    <<"MISTRAL_API_KEY", "mistral/mistral-large-latest">>,
    <<"CEREBRAS_API_KEY", "cerebras/llama-3.3-70b">>,
    <<"VENICE_API_KEY", "venice/llama-3.3-70b">>,
    <<"MOONSHOT_API_KEY", "moonshot/kimi-k2.5">>,
    <<"KIMI_API_KEY", "kimi-coding/k2p5">>,
    <<"MINIMAX_API_KEY", "minimax/MiniMax-M2.1">>,
    <<"SYNTHETIC_API_KEY", "synthetic/hf:MiniMaxAI/MiniMax-M2.1">>,
    <<"ZAI_API_KEY", "zai/glm-4.7">>,
    <<"AI_GATEWAY_API_KEY", "vercel-ai-gateway/anthropic/claude-opus-4.5">>,
    <<"XIAOMI_API_KEY", "xiaomi/mimo-v2-flash">>,
    <<"AWS_ACCESS_KEY_ID", "amazon-bedrock/anthropic.claude-opus-4-5-20251101-v1:0">>,
    <<"_OLLAMA_URL", "ollama/llama3.3">> >>

TELEGRAM_FIELDS == <<
    <<"TELEGRAM_DM_POLICY", "dmPolicy", "str">>,
    <<"TELEGRAM_GROUP_POLICY", "groupPolicy", "str">>,
    <<"TELEGRAM_REPLY_TO_MODE", "replyToMode", "str">>,
    <<"TELEGRAM_CHUNK_MODE", "chunkMode", "str">>,
    <<"TELEGRAM_STREAM_MODE", "streamMode", "str">>,
    <<"TELEGRAM_REACTION_NOTIFICATIONS", "reactionNotifications", "str">>,
    <<"TELEGRAM_REACTION_LEVEL", "reactionLevel", "str">>,
    <<"TELEGRAM_PROXY", "proxy", "str">>,
    <<"TELEGRAM_WEBHOOK_URL", "webhookUrl", "str">>,
    <<"TELEGRAM_WEBHOOK_SECRET", "webhookSecret", "str">>,
    <<"TELEGRAM_WEBHOOK_PATH", "webhookPath", "str">>,
    <<"TELEGRAM_MESSAGE_PREFIX", "messagePrefix", "str">>,
    <<"TELEGRAM_LINK_PREVIEW", "linkPreview", "bool_true">>,
    <<"TELEGRAM_ACTIONS_REACTIONS", "actions.reactions", "bool_true">>,
    <<"TELEGRAM_ACTIONS_STICKER", "actions.sticker", "bool_false">>,
    <<"TELEGRAM_TEXT_CHUNK_LIMIT", "textChunkLimit", "int">>,
    <<"TELEGRAM_MEDIA_MAX_MB", "mediaMaxMb", "int">>,
    <<"TELEGRAM_ALLOW_FROM", "allowFrom", "csv_smart">>,
    <<"TELEGRAM_GROUP_ALLOW_FROM", "groupAllowFrom", "csv_smart">>,
    <<"TELEGRAM_INLINE_BUTTONS", "capabilities.inlineButtons", "str">> >>

DISCORD_FIELDS == <<
    <<"DISCORD_DM_POLICY", "dm.policy", "str">>,
    <<"DISCORD_GROUP_POLICY", "groupPolicy", "str">>,
    <<"DISCORD_REPLY_TO_MODE", "replyToMode", "str">>,
    <<"DISCORD_CHUNK_MODE", "chunkMode", "str">>,
    <<"DISCORD_REACTION_NOTIFICATIONS", "reactionNotifications", "str">>,
    <<"DISCORD_MESSAGE_PREFIX", "messagePrefix", "str">>,
    <<"DISCORD_ALLOW_BOTS", "allowBots", "bool_false">>,
    <<"DISCORD_ACTIONS_REACTIONS", "actions.reactions", "bool_true">>,
    <<"DISCORD_ACTIONS_STICKERS", "actions.stickers", "bool_true">>,
    <<"DISCORD_ACTIONS_EMOJI_UPLOADS", "actions.emojiUploads", "bool_true">>,
    <<"DISCORD_ACTIONS_STICKER_UPLOADS", "actions.stickerUploads", "bool_true">>,
    <<"DISCORD_ACTIONS_POLLS", "actions.polls", "bool_true">>,
    <<"DISCORD_ACTIONS_PERMISSIONS", "actions.permissions", "bool_true">>,
    <<"DISCORD_ACTIONS_MESSAGES", "actions.messages", "bool_true">>,
    <<"DISCORD_ACTIONS_THREADS", "actions.threads", "bool_true">>,
    <<"DISCORD_ACTIONS_PINS", "actions.pins", "bool_true">>,
    <<"DISCORD_ACTIONS_SEARCH", "actions.search", "bool_true">>,
    <<"DISCORD_ACTIONS_MEMBER_INFO", "actions.memberInfo", "bool_true">>,
    <<"DISCORD_ACTIONS_ROLE_INFO", "actions.roleInfo", "bool_true">>,
    <<"DISCORD_ACTIONS_CHANNEL_INFO", "actions.channelInfo", "bool_true">>,
    <<"DISCORD_ACTIONS_CHANNELS", "actions.channels", "bool_true">>,
    <<"DISCORD_ACTIONS_VOICE_STATUS", "actions.voiceStatus", "bool_true">>,
    <<"DISCORD_ACTIONS_EVENTS", "actions.events", "bool_true">>,
    <<"DISCORD_ACTIONS_ROLES", "actions.roles", "bool_false">>,
    <<"DISCORD_ACTIONS_MODERATION", "actions.moderation", "bool_false">>,
    <<"DISCORD_TEXT_CHUNK_LIMIT", "textChunkLimit", "int">>,
    <<"DISCORD_MAX_LINES_PER_MESSAGE", "maxLinesPerMessage", "int">>,
    <<"DISCORD_MEDIA_MAX_MB", "mediaMaxMb", "int">>,
    <<"DISCORD_HISTORY_LIMIT", "historyLimit", "int">>,
    <<"DISCORD_DM_HISTORY_LIMIT", "dmHistoryLimit", "int">>,
    <<"DISCORD_DM_ALLOW_FROM", "dm.allowFrom", "csv">> >>

SLACK_FIELDS == <<
    <<"SLACK_USER_TOKEN", "userToken", "str">>,
    <<"SLACK_SIGNING_SECRET", "signingSecret", "str">>,
    <<"SLACK_MODE", "mode", "str">>,
    <<"SLACK_WEBHOOK_PATH", "webhookPath", "str">>,
    <<"SLACK_DM_POLICY", "dm.policy", "str">>,
    <<"SLACK_GROUP_POLICY", "groupPolicy", "str">>,
    <<"SLACK_REPLY_TO_MODE", "replyToMode", "str">>,
    <<"SLACK_REACTION_NOTIFICATIONS", "reactionNotifications", "str">>,
    <<"SLACK_CHUNK_MODE", "chunkMode", "str">>,
    <<"SLACK_MESSAGE_PREFIX", "messagePrefix", "str">>,
    <<"SLACK_ALLOW_BOTS", "allowBots", "bool_false">>,
    <<"SLACK_ACTIONS_REACTIONS", "actions.reactions", "bool_true">>,
    <<"SLACK_ACTIONS_MESSAGES", "actions.messages", "bool_true">>,
    <<"SLACK_ACTIONS_PINS", "actions.pins", "bool_true">>,
    <<"SLACK_ACTIONS_MEMBER_INFO", "actions.memberInfo", "bool_true">>,
    <<"SLACK_ACTIONS_EMOJI_LIST", "actions.emojiList", "bool_true">>,
    <<"SLACK_HISTORY_LIMIT", "historyLimit", "int">>,
    <<"SLACK_TEXT_CHUNK_LIMIT", "textChunkLimit", "int">>,
    <<"SLACK_MEDIA_MAX_MB", "mediaMaxMb", "int">>,
    <<"SLACK_DM_ALLOW_FROM", "dm.allowFrom", "csv">> >>

WHATSAPP_FIELDS == <<
    <<"WHATSAPP_DM_POLICY", "dmPolicy", "str">>,
    <<"WHATSAPP_GROUP_POLICY", "groupPolicy", "str">>,
    <<"WHATSAPP_MESSAGE_PREFIX", "messagePrefix", "str">>,
    <<"WHATSAPP_SELF_CHAT_MODE", "selfChatMode", "bool_false">>,
    <<"WHATSAPP_SEND_READ_RECEIPTS", "sendReadReceipts", "bool_true">>,
    <<"WHATSAPP_ACTIONS_REACTIONS", "actions.reactions", "bool_true">>,
    <<"WHATSAPP_MEDIA_MAX_MB", "mediaMaxMb", "int">>,
    <<"WHATSAPP_HISTORY_LIMIT", "historyLimit", "int">>,
    <<"WHATSAPP_DM_HISTORY_LIMIT", "dmHistoryLimit", "int">>,
    <<"WHATSAPP_ALLOW_FROM", "allowFrom", "csv">>,
    <<"WHATSAPP_GROUP_ALLOW_FROM", "groupAllowFrom", "csv">>,
    <<"WHATSAPP_ACK_REACTION_EMOJI", "ackReaction.emoji", "str">>,
    <<"WHATSAPP_ACK_REACTION_DIRECT", "ackReaction.direct", "bool_true">>,
    <<"WHATSAPP_ACK_REACTION_GROUP", "ackReaction.group", "str">> >>

\* gate and tokenField are the lists of the source, or its single name as a
\* one-element list; gateIsList tells the two apart.
CHANNELS == <<
    [key |-> "telegram", gate |-> <<"TELEGRAM_BOT_TOKEN">>, gateIsList |-> FALSE, gateCheck |-> "token", merge |-> TRUE,
     tokenField |-> <<"botToken">>, fields |-> TELEGRAM_FIELDS],
    [key |-> "discord", gate |-> <<"DISCORD_BOT_TOKEN">>, gateIsList |-> FALSE, gateCheck |-> "token", merge |-> TRUE,
     tokenField |-> <<"token">>, fields |-> DISCORD_FIELDS],
    [key |-> "slack", gate |-> <<"SLACK_BOT_TOKEN", "SLACK_APP_TOKEN">>, gateIsList |-> TRUE, gateCheck |-> "token", merge |-> TRUE,
     tokenField |-> <<"botToken", "appToken">>, fields |-> SLACK_FIELDS],
    [key |-> "whatsapp", gate |-> <<"WHATSAPP_ENABLED">>, gateIsList |-> FALSE, gateCheck |-> "bool", merge |-> FALSE,
     tokenField |-> <<>>, fields |-> WHATSAPP_FIELDS] >>

BROWSER_FIELDS == <<
    <<"BROWSER_CDP_URL", "cdpUrl", "str">>,
    <<"BROWSER_EVALUATE_ENABLED", "evaluateEnabled", "bool_false">>,
    <<"BROWSER_SNAPSHOT_MODE", "snapshotDefaults.mode", "str">>,
    <<"BROWSER_REMOTE_TIMEOUT_MS", "remoteCdpTimeoutMs", "int">>,
    <<"BROWSER_REMOTE_HANDSHAKE_TIMEOUT_MS", "remoteCdpHandshakeTimeoutMs", "int">>,
    <<"BROWSER_DEFAULT_PROFILE", "defaultProfile", "str">> >>

HOOKS_FIELDS == <<
    <<"HOOKS_TOKEN", "token", "str">>,
    <<"HOOKS_PATH", "path", "str">> >>

(***************************************************************************)
(* Files                                                                   *)
(***************************************************************************)
\* A document file is missing, holds text json.load rejects, or holds a
\* document whose root is a mapping.
Missing == [kind |-> "missing"]
Garbage == [kind |-> "garbage"]
\* A file whose bytes are not text in the encoding open() reads with: read()
\* raises UnicodeDecodeError, a ValueError that is no JSONDecodeError.
Undecodable == [kind |-> "undecodable"]
Json(doc) == [kind |-> "json", doc |-> doc]

\* WORKSPACE_DIR (module level)
WORKSPACE_DIR == RStrip(EnvGet("OPENCLAW_WORKSPACE_DIR", "/data/workspace"), "/")

\* cfg[keys[1]]...[keys[n]] = value on dicts that exist.
RECURSIVE Assign(_, _, _)
Assign(cfg, keys, value) ==
    IF Len(keys) = 1 THEN Put(cfg, keys[1], value)
    ELSE Put(cfg, Head(keys), Assign(cfg.m[Head(keys)], Tail(keys), value))

\* cfg[keys[1]]...[keys[n]] on dicts that exist.
RECURSIVE At(_, _)
At(cfg, keys) == IF keys = <<>> THEN cfg ELSE At(cfg.m[Head(keys)], Tail(keys))

(***************************************************************************)
(* The steps of main, each from the document before it to the document    *)
(* after it (or Raise)                                                     *)
(***************************************************************************)
\* 1. the bundled override document
LoadedCustom ==
    IF custom_file.kind = "json" THEN custom_file.doc
    ELSE IF custom_file.kind = "undecodable" THEN Raise
    ELSE EmptyMap
CustomFound == custom_file.kind = "json"

\* 1. the persisted document, merged over the running result
\* persisted.items() raises on a document that is not an object, and
\* target.get on a running result that is not one.
MergedPersisted(cfg) ==
    IF config_file.kind = "json"
    THEN IF ~IsMap(config_file.doc) THEN Raise
         ELSE IF config_file.doc = EmptyMap THEN cfg
         ELSE IF ~IsMap(cfg) THEN Raise
         ELSE deep_merge(cfg, config_file.doc)
    ELSE IF config_file.kind = "undecodable" THEN Raise
    ELSE cfg

\* 2. gateway
GatewayPort(cfg) ==
    IF EnvTrue("OPENCLAW_GATEWAY_PORT")
    THEN IF IsIntLiteral(env["OPENCLAW_GATEWAY_PORT"])
         THEN Assign(cfg, <<"gateway", "port">>, Num(IntValue(env["OPENCLAW_GATEWAY_PORT"])))
         ELSE Raise
    ELSE IF ~Truthy(DictGet(cfg.m["gateway"], "port"))
         THEN Assign(cfg, <<"gateway", "port">>, Num(18789))
         ELSE cfg

GatewayMode(cfg) ==
    IF ~Truthy(DictGet(cfg.m["gateway"], "mode"))
    THEN Assign(cfg, <<"gateway", "mode">>, Str("local"))
    ELSE cfg

GatewayAuth(cfg) ==
    LET token == Strip(EnvGet("OPENCLAW_GATEWAY_TOKEN", ""))
    IN IF token # ""
       THEN Assign(Assign(ensure(cfg, <<"gateway", "auth">>),
                          <<"gateway", "auth", "mode">>, Str("token")),
                   <<"gateway", "auth", "token">>, Str(token))
       ELSE cfg

DefaultTrue(cfg, keys) ==
    IF DictGet(At(cfg, SubSeq(keys, 1, Len(keys) - 1)), keys[Len(keys)]) = Null
    THEN Assign(cfg, keys, Bool(TRUE))
    ELSE cfg

GatewayStep(cfg) ==
    LET withPort == IF IsMap(cfg) THEN GatewayPort(ensure(cfg, <<"gateway">>)) ELSE Raise
    IN IF withPort = Raise THEN Raise
       ELSE DefaultTrue(DefaultTrue(ensure(GatewayAuth(GatewayMode(withPort)), <<"gateway", "controlUi">>),
                                    <<"gateway", "controlUi", "allowInsecureAuth">>),
                        <<"gateway", "controlUi", "enabled">>)

\* 3. agents defaults
AgentsStep(cfg) ==
    LET c1 == ensure(cfg, <<"agents", "defaults">>)
        c2 == IF ~Truthy(DictGet(At(c1, <<"agents", "defaults">>), "workspace"))
              THEN Assign(c1, <<"agents", "defaults", "workspace">>, Str(WORKSPACE_DIR))
              ELSE c1
    IN ensure(c2, <<"agents", "defaults", "model">>)

\* 4. custom providers
ProviderBaseUrl(prov) ==
    IF "baseUrl" \in DOMAIN prov THEN prov.baseUrl
    ELSE RStrip(EnvGet(prov.baseUrlEnv, prov.baseUrlDefault), "/")

ProviderEntry(prov) ==
    Map([api |-> Str(prov.api), apiKey |-> Str(env[prov.env]), models |-> prov.models,
         baseUrl |-> Str(ProviderBaseUrl(prov))])

CustomProvider(cfg, custom, prov) ==
    IF EnvTrue(prov.env)
    THEN Assign(ensure(cfg, <<"models", "providers">>),
                <<"models", "providers", prov.key>>, ProviderEntry(prov))
    ELSE remove_provider(cfg, custom, prov.key)

RECURSIVE CustomProvidersFrom(_, _, _)
CustomProvidersFrom(cfg, custom, i) ==
    IF i > Len(CUSTOM_PROVIDERS) THEN cfg
    ELSE CustomProvidersFrom(CustomProvider(cfg, custom, CUSTOM_PROVIDERS[i]), custom, i + 1)

CustomProvidersStep(cfg, custom) == CustomProvidersFrom(cfg, custom, 1)

\* 5. Amazon Bedrock
BedrockGate == EnvTrue("AWS_ACCESS_KEY_ID") /\ EnvTrue("AWS_SECRET_ACCESS_KEY")

BedrockRegion ==
    IF EnvTrue("AWS_REGION") THEN env["AWS_REGION"]
    ELSE IF EnvTrue("AWS_DEFAULT_REGION") THEN env["AWS_DEFAULT_REGION"]
    ELSE "us-east-1"

BedrockEntry ==
    Map([api |-> Str("bedrock-converse-stream"),
         baseUrl |-> Str("https://bedrock-runtime." \o BedrockRegion \o ".amazonaws.com"),
         models |-> List(<<
            Map([id |-> Str("anthropic.claude-opus-4-5-20251101-v1:0"),
                 name |-> Str("Claude Opus 4.5 (Bedrock)"), contextWindow |-> Num(200000)]),
            Map([id |-> Str("anthropic.claude-sonnet-4-5-20250929-v1:0"),
                 name |-> Str("Claude Sonnet 4.5 (Bedrock)"), contextWindow |-> Num(200000)]) >>)])

BedrockDiscovery ==
    Map([enabled |-> Bool(TRUE), region |-> Str(BedrockRegion),
         providerFilter |-> Str(EnvGet("BEDROCK_PROVIDER_FILTER", "anthropic")),
         refreshInterval |-> Num(3600)])

BedrockStep(cfg, custom) ==
    IF BedrockGate
    THEN Assign(Assign(ensure(cfg, <<"models", "providers">>),
                       <<"models", "providers", "amazon-bedrock">>, BedrockEntry),
                <<"models", "bedrockDiscovery">>, BedrockDiscovery)
    ELSE IF ~custom
         THEN LET c1 == DelProvider(cfg, "amazon-bedrock")
              IN IF Has(c1, "models") /\ IsMap(c1.m["models"])
                 THEN Put(c1, "models", Del(c1.m["models"], "bedrockDiscovery"))
                 ELSE c1
         ELSE cfg

\* 6. Ollama
OllamaUrl == RStrip(EnvGet("OLLAMA_BASE_URL", ""), "/")

OllamaEntry(url) ==
    Map([api |-> Str("openai-completions"),
         baseUrl |-> Str(IF EndsWith(url, "/v1") THEN url ELSE url \o "/v1"),
         models |-> List(<<Map([id |-> Str("llama3.3"), name |-> Str("Llama 3.3"),
                                contextWindow |-> Num(128000)])>>)])

OllamaStep(cfg, custom) ==
    IF OllamaUrl # ""
    THEN Assign(ensure(cfg, <<"models", "providers">>),
                <<"models", "providers", "ollama">>, OllamaEntry(OllamaUrl))
    ELSE remove_provider(cfg, custom, "ollama")

\* 7. stale built-in provider entries
OpencodeKey ==
    IF EnvTrue("OPENCODE_API_KEY") THEN env["OPENCODE_API_KEY"]
    ELSE EnvGet("OPENCODE_ZEN_API_KEY", "")

RECURSIVE BuiltinsFrom(_, _, _)
BuiltinsFrom(cfg, custom, i) ==
    IF i > Len(BUILTIN_PROVIDERS) THEN cfg
    ELSE BuiltinsFrom(IF ~custom THEN DelProvider(cfg, BUILTIN_PROVIDERS[i][3]) ELSE cfg,
                      custom, i + 1)

\* The guard on has_custom_config inverted.
BuiltinsStepInverted(cfg, custom) ==
    LET c1 == BuiltinsFrom(cfg, ~custom, 1)
    IN IF custom THEN DelProvider(c1, "opencode") ELSE c1

BuiltinsStep(cfg, custom) ==
    LET c1 == BuiltinsFrom(cfg, custom, 1)
    IN IF ~custom THEN DelProvider(c1, "opencode") ELSE c1

\* 8. primary model
\* resolved_env.get(k): os.environ with the two derived signals set over it
\* os.environ without the two derived signals.
ResolvedEnvRaw(k, okey, ourl) == EnvGet(k, "")

ResolvedEnv(k, okey, ourl) ==
    CASE k = "_OPENCODE_KEY" -> okey
      [] k = "_OLLAMA_URL" -> ourl
      [] OTHER -> EnvGet(k, "")

RECURSIVE AutoModelFrom(_, _, _)
AutoModelFrom(okey, ourl, i) ==
    IF i > Len(PRIMARY_MODEL_PRIORITY) THEN ""
    ELSE IF ResolvedEnv(PRIMARY_MODEL_PRIORITY[i][1], okey, ourl) # ""
         THEN PRIMARY_MODEL_PRIORITY[i][2]
         ELSE AutoModelFrom(okey, ourl, i + 1)

PrimaryPath == <<"agents", "defaults", "model", "primary">>

\* The persisted value tested before the environment override.
PrimaryStepPersistedFirst(cfg, okey, ourl) ==
    IF Truthy(DictGet(At(cfg, <<"agents", "defaults", "model">>), "primary"))
    THEN cfg
    ELSE IF EnvTrue("OPENCLAW_PRIMARY_MODEL")
         THEN Assign(cfg, PrimaryPath, Str(env["OPENCLAW_PRIMARY_MODEL"]))
         ELSE IF AutoModelFrom(okey, ourl, 1) # ""
              THEN Assign(cfg, PrimaryPath, Str(AutoModelFrom(okey, ourl, 1)))
              ELSE cfg

PrimaryStep(cfg, okey, ourl) ==
    IF EnvTrue("OPENCLAW_PRIMARY_MODEL")
    THEN Assign(cfg, PrimaryPath, Str(env["OPENCLAW_PRIMARY_MODEL"]))
    ELSE IF Truthy(DictGet(At(cfg, <<"agents", "defaults", "model">>), "primary"))
         THEN cfg
         ELSE IF AutoModelFrom(okey, ourl, 1) # ""
              THEN Assign(cfg, PrimaryPath, Str(AutoModelFrom(okey, ourl, 1)))
              ELSE cfg

\* 9. Deepgram
DeepgramStep(cfg) ==
    IF EnvTrue("DEEPGRAM_API_KEY")
    THEN Assign(Assign(ensure(cfg, <<"tools", "media", "audio">>),
                       <<"tools", "media", "audio", "enabled">>, Bool(TRUE)),
                <<"tools", "media", "audio", "models">>,
                List(<<Map([provider |-> Str("deepgram"), model |-> Str("nova-3")])>>))
    ELSE cfg

\* 10. channels
\* A list gate that opens when any of its variables is non-empty.
GateOpenAny(ch) ==
    IF ch.gateIsList THEN \E i \in 1..Len(ch.gate) : EnvTrue(ch.gate[i])
    ELSE IF ch.gateCheck = "bool" THEN Lower(EnvGet(ch.gate[1], "")) \in {"true", "1"}
    ELSE EnvTrue(ch.gate[1])

\* A boolean gate that compares the value as written.
GateOpenCaseSensitive(ch) ==
    IF ch.gateIsList THEN \A i \in 1..Len(ch.gate) : EnvTrue(ch.gate[i])
    ELSE IF ch.gateCheck = "bool" THEN EnvGet(ch.gate[1], "") \in {"true", "1"}
    ELSE EnvTrue(ch.gate[1])

GateOpen(ch) ==
    IF ch.gateIsList THEN \A i \in 1..Len(ch.gate) : EnvTrue(ch.gate[i])
    ELSE IF ch.gateCheck = "bool" THEN Lower(EnvGet(ch.gate[1], "")) \in {"true", "1"}
    ELSE EnvTrue(ch.gate[1])

\* os.environ[g] raises KeyError for a variable that is not set.
RECURSIVE TokensFrom(_, _, _)
TokensFrom(obj, ch, i) ==
    IF obj = Raise \/ i > Len(ch.gate) \/ i > Len(ch.tokenField) THEN obj
    ELSE TokensFrom(IF EnvUnset(ch.gate[i]) THEN Raise
                    ELSE Put(obj, ch.tokenField[i], Str(env[ch.gate[i]])),
                    ch, i + 1)

\* The open-gate branch with the merge flag read the wrong way round.
ConfigureChannelInverted(cfg, ch) ==
    LET c1 == ensure(cfg, <<"channels">>)
        channels == c1.m["channels"]
        channel_obj == IF ~ch.merge /\ ch.key \in DOMAIN channels.m
                       THEN channels.m[ch.key] ELSE EmptyMap
        result == IF IsMap(channel_obj)
                  THEN apply_fields(TokensFrom(Put(channel_obj, "enabled", Bool(TRUE)), ch, 1),
                                    ch.fields)
                  ELSE Raise
    IN IF result = Raise THEN Raise ELSE Assign(c1, <<"channels", ch.key>>, result)

\* The open-gate branch.  With merge, setdefault hands back the node that is
\* at the channel's key whatever its type, and the item assignment of
\* "enabled" raises on a node that is not a dict.
ConfigureChannel(cfg, ch) ==
    LET c1 == ensure(cfg, <<"channels">>)
        channels == c1.m["channels"]
        channel_obj == IF ch.merge /\ ch.key \in DOMAIN channels.m
                       THEN channels.m[ch.key] ELSE EmptyMap
        result == IF IsMap(channel_obj)
                  THEN apply_fields(TokensFrom(Put(channel_obj, "enabled", Bool(TRUE)), ch, 1),
                                    ch.fields)
                  ELSE Raise
    IN IF result = Raise THEN Raise ELSE Assign(c1, <<"channels", ch.key>>, result)

RECURSIVE ChannelsFrom(_, _)
ChannelsFrom(cfg, i) ==
    IF cfg = Raise \/ i > Len(CHANNELS) THEN cfg
    ELSE ChannelsFrom(IF GateOpen(CHANNELS[i]) THEN ConfigureChannel(cfg, CHANNELS[i]) ELSE cfg,
                      i + 1)

ChannelsStep(cfg) ==
    LET c1 == ChannelsFrom(cfg, 1)
    IN IF c1 # Raise /\ Has(c1, "channels") /\ c1.m["channels"] = EmptyMap
       THEN Del(c1, "channels")
       ELSE c1

\* 11. browser
BrowserStep(cfg) ==
    IF EnvTrue("BROWSER_CDP_URL")
    THEN LET c1 == ensure(cfg, <<"browser">>)
             browser == apply_fields(c1.m["browser"], BROWSER_FIELDS)
         IN IF browser = Raise THEN Raise ELSE Put(c1, "browser", browser)
    ELSE cfg

\* 12. hooks
HooksStep(cfg) ==
    IF Lower(EnvGet("HOOKS_ENABLED", "")) \in {"true", "1"}
    THEN LET c1 == Assign(ensure(cfg, <<"hooks">>), <<"hooks", "enabled">>, Bool(TRUE))
             hooks == apply_fields(c1.m["hooks"], HOOKS_FIELDS)
         IN IF hooks = Raise THEN Raise ELSE Put(c1, "hooks", hooks)
    ELSE cfg

\* 14. the validator
RECURSIVE AnyTrue(_, _)
AnyTrue(names, i) == i <= Len(names) /\ (EnvTrue(names[i]) \/ AnyTrue(names, i + 1))

BuiltinEnvs == [i \in 1..Len(BUILTIN_PROVIDERS) |-> BUILTIN_PROVIDERS[i][1]]
CustomEnvs == [i \in 1..Len(CUSTOM_PROVIDERS) |-> CUSTOM_PROVIDERS[i].env]

\* The Bedrock signal taken from the access key alone.
HasProviderAccessKeyOnly(okey, ourl) ==
    \/ AnyTrue(BuiltinEnvs, 1)
    \/ okey # ""
    \/ EnvTrue("AWS_ACCESS_KEY_ID")
    \/ ourl # ""
    \/ AnyTrue(CustomEnvs, 1)

HasProvider(okey, ourl) ==
    \/ AnyTrue(BuiltinEnvs, 1)
    \/ okey # ""
    \/ BedrockGate
    \/ ourl # ""
    \/ AnyTrue(CustomEnvs, 1)

\* The variable names the "Set one of:" lines of the diagnostic list.
Diagnostic == {
    "ANTHROPIC_API_KEY", "OPENAI_API_KEY", "OPENROUTER_API_KEY", "GEMINI_API_KEY",
    "XAI_API_KEY", "GROQ_API_KEY", "MISTRAL_API_KEY", "CEREBRAS_API_KEY", "ZAI_API_KEY",
    "AI_GATEWAY_API_KEY", "OPENCODE_API_KEY", "COPILOT_GITHUB_TOKEN", "VENICE_API_KEY",
    "MOONSHOT_API_KEY", "KIMI_API_KEY", "MINIMAX_API_KEY", "SYNTHETIC_API_KEY", "XIAOMI_API_KEY",
    "AWS_ACCESS_KEY_ID", "AWS_SECRET_ACCESS_KEY", "OLLAMA_BASE_URL" }

\* 16-17. the Caddy snippets
NoAuth == "(auth_block) {}"
BasicAuth == "(auth_block) { basicauth }"

\* config.get("hooks", {}).get("enabled") raises on a hooks node that is not a dict.
HooksSnippet(cfg) ==
    LET hooks == IF Has(cfg, "hooks") THEN cfg.m["hooks"] ELSE EmptyMap
    IN IF ~IsMap(hooks) THEN Raise
       ELSE IF Truthy(DictGet(hooks, "enabled"))
            THEN [t |-> "handle", path |-> get_nested(cfg, "hooks.path", Str("/hooks")),
                  port |-> EnvGet("OPENCLAW_GATEWAY_PORT", "18789"),
                  token |-> EnvGet("OPENCLAW_GATEWAY_TOKEN", "")]
            ELSE [t |-> "empty"]

(***************************************************************************)
(* main as a state machine: one action per numbered step                   *)
(***************************************************************************)
\* An uncaught exception ends the process with status 1 where it is raised.
Advance(from, to, result) ==
    /\ pc = from
    /\ IF result = Raise
       THEN /\ pc' = "crashed"
            /\ exit_code' = 1
            /\ UNCHANGED config
       ELSE /\ pc' = to
            /\ config' = result
            /\ UNCHANGED exit_code

LoadCustom ==
    /\ Advance("load_custom", "load_persisted", LoadedCustom)
    /\ has_custom_config' = CustomFound
    /\ UNCHANGED <<env, custom_file, config_file, caddy_files, ollama_url, opencode_key,
                   stderr, loaded>>

LoadPersisted ==
    /\ Advance("load_persisted", "gateway", MergedPersisted(config))
    /\ loaded' = IF MergedPersisted(config) = Raise THEN loaded ELSE MergedPersisted(config)
    /\ UNCHANGED <<env, custom_file, config_file, caddy_files, has_custom_config,
                   ollama_url, opencode_key, stderr>>

Gateway ==
    /\ Advance("gateway", "agents", GatewayStep(config))
    /\ UNCHANGED <<env, loaded, custom_file, config_file, caddy_files, has_custom_config,
                   ollama_url, opencode_key, stderr>>

AgentsDefaults ==
    /\ Advance("agents", "custom_providers", AgentsStep(config))
    /\ UNCHANGED <<env, loaded, custom_file, config_file, caddy_files, has_custom_config,
                   ollama_url, opencode_key, stderr>>

CustomProviders ==
    /\ Advance("custom_providers", "bedrock", CustomProvidersStep(config, has_custom_config))
    /\ UNCHANGED <<env, loaded, custom_file, config_file, caddy_files, has_custom_config,
                   ollama_url, opencode_key, stderr>>

Bedrock ==
    /\ Advance("bedrock", "ollama", BedrockStep(config, has_custom_config))
    /\ UNCHANGED <<env, loaded, custom_file, config_file, caddy_files, has_custom_config,
                   ollama_url, opencode_key, stderr>>

Ollama ==
    /\ Advance("ollama", "builtins", OllamaStep(config, has_custom_config))
    /\ ollama_url' = OllamaUrl
    /\ UNCHANGED <<env, loaded, custom_file, config_file, caddy_files, has_custom_config,
                   opencode_key, stderr>>

CleanBuiltins ==
    /\ Advance("builtins", "primary", BuiltinsStep(config, has_custom_config))
    /\ opencode_key' = OpencodeKey
    /\ UNCHANGED <<env, loaded, custom_file, config_file, caddy_files, has_custom_config,
                   ollama_url, stderr>>

PrimaryModel ==
    /\ Advance("primary", "deepgram", PrimaryStep(config, opencode_key, ollama_url))
    /\ UNCHANGED <<env, loaded, custom_file, config_file, caddy_files, has_custom_config,
                   ollama_url, opencode_key, stderr>>

Deepgram ==
    /\ Advance("deepgram", "channels", DeepgramStep(config))
    /\ UNCHANGED <<env, loaded, custom_file, config_file, caddy_files, has_custom_config,
                   ollama_url, opencode_key, stderr>>

Channels ==
    /\ Advance("channels", "browser", ChannelsStep(config))
    /\ UNCHANGED <<env, loaded, custom_file, config_file, caddy_files, has_custom_config,
                   ollama_url, opencode_key, stderr>>

Browser ==
    /\ Advance("browser", "hooks", BrowserStep(config))
    /\ UNCHANGED <<env, loaded, custom_file, config_file, caddy_files, has_custom_config,
                   ollama_url, opencode_key, stderr>>

Hooks ==
    /\ Advance("hooks", "overrides", HooksStep(config))
    /\ UNCHANGED <<env, loaded, custom_file, config_file, caddy_files, has_custom_config,
                   ollama_url, opencode_key, stderr>>

ConventionOverrides ==
    /\ Advance("overrides", "validate", apply_convention_overrides(config))
    /\ UNCHANGED <<env, loaded, custom_file, config_file, caddy_files, has_custom_config,
                   ollama_url, opencode_key, stderr>>

Validate ==
    /\ pc = "validate"
    /\ IF HasProvider(opencode_key, ollama_url)
       THEN /\ pc' = "write"
            /\ UNCHANGED <<stderr, exit_code>>
       ELSE /\ pc' = "failed"
            /\ stderr' = Diagnostic
            /\ exit_code' = 1
    /\ UNCHANGED <<env, loaded, custom_file, config_file, caddy_files, config, has_custom_config,
                   ollama_url, opencode_key>>

WriteConfig ==
    /\ pc = "write"
    /\ config_file' = Json(config)
    /\ pc' = "caddy"
    /\ UNCHANGED <<env, loaded, custom_file, caddy_files, config, has_custom_config,
                   ollama_url, opencode_key, stderr, exit_code>>

\* caddy hash-password is an external process: it fails, or prints a hash
\* salted afresh on every call.
HashOutputs == {"hash-a", "hash-b"}

AuthSnippets ==
    IF EnvTrue("AUTH_PASSWORD")
    THEN {NoAuth} \cup {BasicAuth \o " " \o EnvGet("AUTH_USERNAME", "admin") \o " " \o h :
                          h \in HashOutputs}
    ELSE {NoAuth}

\* auth.caddyfile is written before the hooks snippet is worked out.
GenerateCaddy ==
    /\ pc = "caddy"
    /\ \E auth \in AuthSnippets :
         IF HooksSnippet(config) = Raise
         THEN /\ caddy_files' = [caddy_files EXCEPT !.auth = auth]
              /\ pc' = "crashed"
              /\ exit_code' = 1
         ELSE /\ caddy_files' = [auth |-> auth, hooks |-> HooksSnippet(config)]
              /\ pc' = "done"
              /\ exit_code' = 0
    /\ UNCHANGED <<env, loaded, custom_file, config_file, config, has_custom_config,
                   ollama_url, opencode_key, stderr>>

Next ==
    \/ LoadCustom
    \/ LoadPersisted
    \/ Gateway
    \/ AgentsDefaults
    \/ CustomProviders
    \/ Bedrock
    \/ Ollama
    \/ CleanBuiltins
    \/ PrimaryModel
    \/ Deepgram
    \/ Channels
    \/ Browser
    \/ Hooks
    \/ ConventionOverrides
    \/ Validate
    \/ WriteConfig
    \/ GenerateCaddy

(***************************************************************************)
(* Inputs                                                                  *)
(***************************************************************************)
\* The most environment variables a run is started with, besides the base set.
MaxEnvVars == 2

\* All subsets of S of at most k elements.
RECURSIVE UpTo(_, _)
UpTo(S, k) ==
    IF k = 0 THEN {{}}
    ELSE LET P == UpTo(S, k - 1) IN P \cup {p \cup {x} : p \in P, x \in S}

\* The environments that set at most MaxEnvVars variables, each to one of its
\* candidate values; a candidate is <<name, value>>.
Names(S) == {c[1] : c \in S}
EnvOf(S) == [n \in Names(S) |-> (CHOOSE c \in S : c[1] = n)[2]]
Environments(candidates) ==
    {EnvOf(S) : S \in {T \in UpTo(candidates, MaxEnvVars) : Cardinality(Names(T)) = Cardinality(T)}}

\* The state main starts from, for an environment and the two document files.
Start(e, custom, persisted) ==
    /\ env = e
    /\ custom_file = custom
    /\ config_file = persisted
    /\ caddy_files = [auth |-> "", hooks |-> [t |-> "absent"]]
    /\ config = EmptyMap
    /\ has_custom_config = FALSE
    /\ ollama_url = ""
    /\ opencode_key = ""
    /\ stderr = {}
    /\ loaded = EmptyMap
    /\ pc = "load_custom"
    /\ exit_code = -1


(***************************************************************************)
(* Runs that exercise the provider resolver                                *)
(***************************************************************************)
StaleEntry == Map([apiKey |-> Str("stale"), baseUrl |-> Str("https://stale.example")])
UserEntry == Map([apiKey |-> Str("user"), baseUrl |-> Str("https://proxy.example")])

BuiltinKeys == {BUILTIN_PROVIDERS[i][3] : i \in 1..Len(BUILTIN_PROVIDERS)} \cup {"opencode"}
CatalogKeys == {CUSTOM_PROVIDERS[i].key : i \in 1..Len(CUSTOM_PROVIDERS)}
ExplicitKeys == CatalogKeys \cup {"amazon-bedrock", "ollama"}

\* A providers mapping with an entry for every built-in, catalog and special
\* provider and for one the program does not know.
ProvidersOf(entry) == Map([k \in BuiltinKeys \cup ExplicitKeys \cup {"acme"} |-> entry])

ModelDoc(model) == Map([agents |-> Map([defaults |-> Map([model |-> model])])])

PersistedStale ==
    deep_merge(ModelDoc(Map([primary |-> Str("persisted/model")])),
               Map([models |-> Map([providers |-> ProvidersOf(StaleEntry),
                                    bedrockDiscovery |-> Map([enabled |-> Bool(TRUE)])])]))

PersistedNoPrimary ==
    deep_merge(ModelDoc(Map([primary |-> Str("")])),
               Map([models |-> Map([providers |-> ProvidersOf(StaleEntry),
                                    bedrockDiscovery |-> Map([enabled |-> Bool(TRUE)])])]))

\* models.providers and agents.defaults.model hold nodes that are not mappings.
PersistedOdd ==
    deep_merge(ModelDoc(Str("persisted/model")),
               Map([models |-> Map([providers |-> List(<<Str("openai")>>)])]))

BundledProviders ==
    deep_merge(ModelDoc(Map([fallback |-> Str("bundled/fallback")])),
               Map([models |-> Map([providers |-> Map([k \in {"groq", "minimax", "ollama", "amazon-bedrock"} |-> UserEntry]),
                                    bedrockDiscovery |-> Map([enabled |-> Bool(FALSE)])])]))

BundledPrimary == ModelDoc(Map([primary |-> Str("bundled/model")]))

ProviderCustomFiles == {Missing, Garbage, Json(BundledProviders), Json(BundledPrimary)}
ProviderConfigFiles == {Missing, Json(PersistedStale), Json(PersistedNoPrimary), Json(PersistedOdd)}

ProviderCandidates ==
    {<<n, "key">> : n \in {"OPENAI_API_KEY", "OPENCODE_ZEN_API_KEY", "VENICE_API_KEY",
                           "MOONSHOT_API_KEY", "AWS_ACCESS_KEY_ID", "AWS_SECRET_ACCESS_KEY"}}
    \cup {<<"OPENAI_API_KEY", "">>,
          <<"MOONSHOT_BASE_URL", "https://moon.example/v1/">>,
          <<"AWS_REGION", "eu-west-1">>,
          <<"OLLAMA_BASE_URL", "http://host:11434/">>, <<"OLLAMA_BASE_URL", "//">>,
          <<"OPENCLAW_GATEWAY_PORT", "80a">>,
          <<"OPENCLAW_JSON__models__providers__openai__baseUrl", "https://proxy.example">>,
          <<"OPENCLAW_JSON__models__providers__venice__api", "custom">>,
          <<"OPENCLAW_JSON__hooks", "on">>}

InitProviders ==
    \E e \in Environments(ProviderCandidates), c \in ProviderCustomFiles, p \in ProviderConfigFiles :
        Start(e, c, p)

SpecProviders == InitProviders /\ [][Next]_vars

(***************************************************************************)
(* Runs that exercise the primary model selection and the validator        *)
(***************************************************************************)
SignalNames ==
    ({PRIMARY_MODEL_PRIORITY[i][1] : i \in 1..Len(PRIMARY_MODEL_PRIORITY)}
        \ {"_OPENCODE_KEY", "_OLLAMA_URL"})
    \cup {"OPENCODE_API_KEY", "OPENCODE_ZEN_API_KEY", "AWS_SECRET_ACCESS_KEY"}

PrimaryCandidates ==
    {<<n, "key">> : n \in SignalNames}
    \cup {<<"OLLAMA_BASE_URL", "http://host:11434/v1">>, <<"OLLAMA_BASE_URL", "//">>,
          <<"GROQ_API_KEY", "">>,
          <<"OPENCLAW_PRIMARY_MODEL", "env/model">>, <<"OPENCLAW_PRIMARY_MODEL", "">>,
          <<"OPENCLAW_GATEWAY_PORT", "80a">>,
          <<"OPENCLAW_JSON__agents__defaults__model__primary", "">>,
          <<"OPENCLAW_JSON__agents__defaults__model", "7">>}

PrimaryCustomFiles == {Missing, Json(BundledPrimary)}
\* A persisted hooks node that is not a mapping.
PersistedHooksOdd == Map([hooks |-> Str("on")])

PrimaryConfigFiles ==
    {Missing, Json(PersistedStale), Json(PersistedNoPrimary), Json(PersistedOdd),
     Json(PersistedHooksOdd)}

InitPrimary ==
    \E e \in Environments(PrimaryCandidates), c \in PrimaryCustomFiles, p \in PrimaryConfigFiles :
        Start(e, c, p)

SpecPrimary == InitPrimary /\ [][Next]_vars

(***************************************************************************)
(* Runs that exercise the channel configurator                             *)
(***************************************************************************)
ChannelsDoc(channels) == Map([channels |-> channels])

PersistedChannels ==
    ChannelsDoc(Map([
        slack |-> Map([enabled |-> Bool(FALSE), botToken |-> Str("xoxb-old"),
                       mode |-> Str("http"), dm |-> Map([policy |-> Str("pairing")])]),
        telegram |-> Map([botToken |-> Str("old"), actions |-> Str("all"),
                          dmPolicy |-> Str("pairing")]),
        whatsapp |-> Map([dmPolicy |-> Str("closed"), selfChatMode |-> Bool(TRUE)]),
        signal |-> Map([enabled |-> Bool(TRUE)])]))

\* Entries that are an empty mapping and a node that is not a mapping.
PersistedChannelsOdd ==
    ChannelsDoc(Map([discord |-> EmptyMap, telegram |-> Str("disabled")]))

BundledChannels ==
    ChannelsDoc(Map([discord |-> Map([enabled |-> Bool(FALSE), token |-> Str("bundled")]),
                     slack |-> Map([historyLimit |-> Num(50)])]))

ChannelCustomFiles == {Missing, Json(BundledChannels)}
ChannelConfigFiles ==
    {Missing, Json(PersistedChannels), Json(PersistedChannelsOdd),
     Json(ChannelsDoc(EmptyMap)), Json(ChannelsDoc(Str("none")))}

ChannelCandidates ==
    {<<"TELEGRAM_BOT_TOKEN", "123:abc">>, <<"DISCORD_BOT_TOKEN", "discord-token">>,
     <<"SLACK_BOT_TOKEN", "xoxb-new">>, <<"SLACK_APP_TOKEN", "xapp-new">>,
     <<"SLACK_APP_TOKEN", "">>,
     <<"WHATSAPP_ENABLED", "TRUE">>, <<"WHATSAPP_ENABLED", "1">>, <<"WHATSAPP_ENABLED", "yes">>,
     <<"SLACK_MODE", "socket">>, <<"WHATSAPP_DM_POLICY", "open">>,
     <<"TELEGRAM_TEXT_CHUNK_LIMIT", "4000">>, <<"TELEGRAM_TEXT_CHUNK_LIMIT", "4k">>,
     <<"TELEGRAM_ACTIONS_REACTIONS", "False">>,
     <<"TELEGRAM_ALLOW_FROM", "12, bob,,">>,
     <<"OPENCLAW_JSON__channels__telegram__botToken", "override">>,
     <<"OPENCLAW_JSON__channels__slack__mode", "http">>,
     <<"OPENCLAW_JSON__channels", "0">>,
     <<"OPENCLAW_JSON__hooks", "on">>}

\* A run with a credential, or with none.
Credentials == {<<>>, [n \in {"ANTHROPIC_API_KEY"} |-> "sk-ant"]}

InitChannels ==
    \E cred \in Credentials, e \in Environments(ChannelCandidates),
       c \in ChannelCustomFiles, p \in ChannelConfigFiles :
        Start([n \in DOMAIN cred \cup DOMAIN e |-> IF n \in DOMAIN e THEN e[n] ELSE cred[n]], c, p)

SpecChannels == InitChannels /\ [][Next]_vars

(***************************************************************************)
(* Runs that set a schema-driven variable and a convention variable        *)
(***************************************************************************)
\* Each convention variable addresses the path of the schema-driven
\* variable before it, and no two of them address nested paths.
OverrideCandidates ==
    {<<"OPENCLAW_GATEWAY_PORT", "8080">>, <<"OPENCLAW_JSON__gateway__port", "9090">>,
     <<"OPENCLAW_GATEWAY_PORT", "80a">>,
     <<"VENICE_API_KEY", "venice-key">>,
     <<"OPENCLAW_JSON__models__providers__venice__baseUrl", "https://proxy.example/v1">>,
     <<"OPENCLAW_PRIMARY_MODEL", "env/model">>,
     <<"OPENCLAW_JSON__agents__defaults__model__primary", "convention/model">>,
     <<"TELEGRAM_BOT_TOKEN", "123:abc">>,
     <<"OPENCLAW_JSON__channels__telegram__botToken", "456">>,
     <<"OPENCLAW_JSON__channels__telegram__enabled", "False">>,
     <<"BROWSER_CDP_URL", "ws://browser:9222">>,
     <<"OPENCLAW_JSON__browser__cdpUrl", "[1]">>,
     <<"HOOKS_ENABLED", "1">>, <<"OPENCLAW_JSON__hooks__enabled", "0.5">>,
     <<"OPENCLAW_JSON__hooks__enabled", "{oops">>}

OverrideConfigFiles == {Missing, Json(PersistedChannels), Json(PersistedStale)}

InitOverrides ==
    \E cred \in Credentials, e \in Environments(OverrideCandidates), p \in OverrideConfigFiles :
        Start([n \in DOMAIN cred \cup DOMAIN e |-> IF n \in DOMAIN e THEN e[n] ELSE cred[n]],
              Missing, p)

SpecOverrides == InitOverrides /\ [][Next]_vars

(***************************************************************************)
(* Runs that exercise the loader                                           *)
(***************************************************************************)
\* The most values a persisted document of these runs is built from.
MaxDocFields == 2

MergeLeaves == {Str("p"), List(<<Num(3)>>), EmptyMap}
MergePaths == {<<"a">>, <<"b">>, <<"c">>, <<"a", "k">>, <<"a", "k", "z">>}

\* doc with value at path, the nodes above it made mappings.
Place(doc, path, value) == Assign(ensure(doc, SubSeq(path, 1, Len(path) - 1)), path, value)

\* The documents that placing at most n values in the empty document gives.
RECURSIVE DocsUpTo(_)
DocsUpTo(n) ==
    IF n = 0 THEN {EmptyMap}
    ELSE LET P == DocsUpTo(n - 1)
         IN P \cup {Place(d, p, v) : d \in P, p \in MergePaths, v \in MergeLeaves}

BundledMergeDocs ==
    {EmptyMap,
     Map([a |-> Str("x"), b |-> List(<<Num(1), Num(2)>>)]),
     Map([a |-> Map([j |-> Str("x")]), b |-> List(<<Num(1), Num(2)>>)]),
     Map([a |-> Map([k |-> Map([z |-> Str("x"), y |-> Num(1)]), j |-> List(<<>>)]), d |-> Str("x")])}

LoadCustomFiles == {Missing, Garbage} \cup {Json(d) : d \in BundledMergeDocs}
LoadConfigFiles == {Missing, Garbage} \cup {Json(d) : d \in DocsUpTo(MaxDocFields)}

InitLoad ==
    \E cred \in Credentials, c \in LoadCustomFiles, p \in LoadConfigFiles : Start(cred, c, p)

SpecLoad == InitLoad /\ [][Next]_vars

(***************************************************************************)
(* Runs whose convention variables address nested and overlapping paths    *)
(***************************************************************************)
PathCandidates ==
    {<<"OPENCLAW_JSON__a", "{}">>, <<"OPENCLAW_JSON__a", "s">>,
     <<"OPENCLAW_JSON__a__k", "1">>,
     <<"OPENCLAW_JSON__a__k__z", "true">>,
     <<"OPENCLAW_JSON__b__x", "[1]">>,
     <<"OPENCLAW_JSON__gateway__port__x", "1">>,
     <<"AUTH_PASSWORD", "secret">>, <<"AUTH_USERNAME", "ops">>}

PathConfigFiles == {Missing} \cup {Json(d) : d \in DocsUpTo(MaxDocFields)}

InitPaths ==
    \E cred \in Credentials, e \in Environments(PathCandidates), p \in PathConfigFiles :
        Start([n \in DOMAIN cred \cup DOMAIN e |-> IF n \in DOMAIN e THEN e[n] ELSE cred[n]],
              Missing, p)

SpecPaths == InitPaths /\ [][Next]_vars

(***************************************************************************)
(* Runs whose document files are missing, unparsable or not an object      *)
(***************************************************************************)
SourceCandidates ==
    {<<"OPENAI_API_KEY", "key">>, <<"VENICE_API_KEY", "key">>,
     <<"OLLAMA_BASE_URL", "http://host:11434">>, <<"OPENCLAW_GATEWAY_PORT", "8080">>}

SourceCustomFiles ==
    {Missing, Garbage, Undecodable, Json(BundledProviders), Json(List(<<>>))}
SourceConfigFiles ==
    {Missing, Garbage, Undecodable, Json(PersistedStale), Json(EmptyMap), Json(List(<<>>))}

InitSources ==
    \E e \in Environments(SourceCandidates), c \in SourceCustomFiles, p \in SourceConfigFiles :
        Start(e, c, p)

SpecSources == InitSources /\ [][Next]_vars

(***************************************************************************)
(* Runs over a bundled override and a persisted document that a second run *)
(* would start from again                                                  *)
(***************************************************************************)
BundledRerun ==
    Map([tools |-> Map([allow |-> List(<<Str("exec"), Str("read")>>)]),
         channels |-> Map([whatsapp |-> Map([selfChatMode |-> Bool(TRUE)]),
                           telegram |-> Map([dmPolicy |-> Str("open")])]),
         models |-> Map([providers |-> Map([k \in {"groq", "venice"} |-> UserEntry])]),
         a |-> Map([j |-> Str("x")])])

PersistedRerun ==
    Map([tools |-> Map([allow |-> List(<<Str("write")>>)]),
         gateway |-> Map([port |-> Num(9000)]),
         channels |-> Map([whatsapp |-> Map([dmPolicy |-> Str("closed")])])])

RerunCandidates ==
    {<<"VENICE_API_KEY", "key">>,
     <<"OLLAMA_BASE_URL", "http://host:11434/">>,
     <<"OPENCLAW_PRIMARY_MODEL", "env/model">>,
     <<"OPENCLAW_GATEWAY_TOKEN", " secret ">>,
     <<"TELEGRAM_BOT_TOKEN", "123:abc">>, <<"TELEGRAM_ALLOW_FROM", "12, bob,,">>,
     <<"WHATSAPP_ENABLED", "true">>,
     <<"HOOKS_ENABLED", "true">>,
     <<"OPENCLAW_JSON__a", "{}">>, <<"OPENCLAW_JSON__a__k", "1">>,
     <<"OPENCLAW_JSON__channels__whatsapp__dmPolicy", "open">>,
     <<"OPENCLAW_JSON__channels__telegram", "x">>,
     <<"BROWSER_CDP_URL", "ws://browser:9222">>, <<"BROWSER_SNAPSHOT_MODE", "efficient">>,
     <<"OPENCLAW_JSON__browser__snapshotDefaults", "x">>,
     <<"OPENCLAW_JSON__channels", "0">>,
     <<"OPENCLAW_JSON__gateway", "x">>,
     <<"OPENCLAW_JSON__agents__defaults__model", "7">>,
     <<"OPENCLAW_JSON__models__providers", "x">>}

RerunCustomFiles == {Missing, Json(BundledRerun), Json(BundledProviders), Json(BundledChannels)}
RerunConfigFiles ==
    {Missing, Json(PersistedRerun), Json(PersistedStale), Json(PersistedChannels),
     Json(PersistedOdd), Json(ChannelsDoc(Str("none")))}

InitRerun ==
    \E cred \in Credentials, e \in Environments(RerunCandidates),
       c \in RerunCustomFiles, p \in RerunConfigFiles :
        Start([n \in DOMAIN cred \cup DOMAIN e |-> IF n \in DOMAIN e THEN e[n] ELSE cred[n]], c, p)

SpecRerun == InitRerun /\ [][Next]_vars

(***************************************************************************)
(* Properties                                                              *)
(***************************************************************************)
\* The run ended with status 0: the document and both artifacts are written.
Succeeded == pc = "done"
\* The document this run emitted.
Emitted == config_file.doc

ProvidersIn(doc) == get_nested(doc, "models.providers", Null)
PrimaryIn(doc) == get_nested(doc, "agents.defaults.model.primary", Null)

\* Some convention variable's name starts with prefix.
ConventionUnder(prefix) == \E k \in DOMAIN env : StartsWith(k, ConventionPrefix \o prefix)

NoBuiltinEntry(doc) == \A k \in BuiltinKeys : ~Has(ProvidersIn(doc), k)

\* C1 as stated: in every successful run without a bundled override document
\* the emitted document has no models.providers entry for a built-in
\* provider, whatever the environment holds, convention overrides included.
C1_AsStated == (Succeeded /\ ~has_custom_config) => NoBuiltinEntry(Emitted)

\* C1 amended: in every successful run without a bundled override document
\* and without a convention variable that addresses models, the emitted
\* document has no models.providers entry for a built-in provider, whatever
\* the persisted document held and whether or not the credential is set.
C1_NoBuiltinEntries ==
    (Succeeded /\ ~has_custom_config /\ ~ConventionUnder("models")) => NoBuiltinEntry(Emitted)

\* A stale entry of a built-in provider whose credential is set was loaded
\* and the run succeeded without it.
C1_Witness ==
    /\ Succeeded /\ ~has_custom_config /\ ~ConventionUnder("models")
    /\ EnvTrue("OPENAI_API_KEY")
    /\ Has(ProvidersIn(loaded), "openai")
    /\ IsMap(ProvidersIn(Emitted))

\* The signal of an entry of the priority list, as the claim words it.
SignalOf(name) ==
    CASE name = "_OPENCODE_KEY" ->
            IF EnvGet("OPENCODE_API_KEY", "") # "" THEN env["OPENCODE_API_KEY"]
            ELSE EnvGet("OPENCODE_ZEN_API_KEY", "")
      [] name = "_OLLAMA_URL" -> RStrip(EnvGet("OLLAMA_BASE_URL", ""), "/")
      [] OTHER -> EnvGet(name, "")

SignalledEntries == {i \in 1..Len(PRIMARY_MODEL_PRIORITY) : SignalOf(PRIMARY_MODEL_PRIORITY[i][1]) # ""}
LowestSignalled == CHOOSE i \in SignalledEntries : \A j \in SignalledEntries : i <= j

AfterProviderStage == pc = "deepgram"

\* C2: after the provider stage the primary model is OPENCLAW_PRIMARY_MODEL
\* when that is non-empty, else the non-empty primary of the loaded document,
\* else the model of the lowest-index priority entry whose signal is
\* non-empty; with only GROQ_API_KEY set and no loaded primary it is
\* groq/llama-3.3-70b-versatile.
C2_PrimaryResolution ==
    AfterProviderStage =>
        /\ IF EnvGet("OPENCLAW_PRIMARY_MODEL", "") # ""
           THEN PrimaryIn(config) = Str(env["OPENCLAW_PRIMARY_MODEL"])
           ELSE IF Truthy(PrimaryIn(loaded))
                THEN PrimaryIn(config) = PrimaryIn(loaded)
                ELSE SignalledEntries # {} =>
                        PrimaryIn(config) = Str(PRIMARY_MODEL_PRIORITY[LowestSignalled][2])
        /\ (DOMAIN env = {"GROQ_API_KEY"} /\ env["GROQ_API_KEY"] # "" /\ ~Truthy(PrimaryIn(loaded)))
              => PrimaryIn(config) = Str("groq/llama-3.3-70b-versatile")

\* Only GROQ_API_KEY is set, the loaded document has an empty primary, and
\* the provider stage has chosen the Groq model.
C2_Witness ==
    /\ AfterProviderStage
    /\ DOMAIN env = {"GROQ_API_KEY"} /\ env["GROQ_API_KEY"] = "key"
    /\ Has(loaded, "agents") /\ PrimaryIn(loaded) = Str("")
    /\ PrimaryIn(config) = Str("groq/llama-3.3-70b-versatile")

ChannelKeys == {"telegram", "discord", "slack", "whatsapp"}
ChannelIn(doc, key) == GetKeys(doc, <<"channels", key>>, [t |-> "absent"])
ChannelExists(doc, key) == ChannelIn(doc, key) # [t |-> "absent"]

\* The gates as the claims word them.
GateIsOpen(key) ==
    CASE key = "telegram" -> EnvGet("TELEGRAM_BOT_TOKEN", "") # ""
      [] key = "discord" -> EnvGet("DISCORD_BOT_TOKEN", "") # ""
      [] key = "slack" -> EnvGet("SLACK_BOT_TOKEN", "") # "" /\ EnvGet("SLACK_APP_TOKEN", "") # ""
      [] key = "whatsapp" -> Lower(EnvGet("WHATSAPP_ENABLED", "")) \in {"true", "1"}

ChannelRule(doc) ==
    \A key \in ChannelKeys :
        ChannelExists(doc, key) <=>
            (GateIsOpen(key) \/ (ChannelExists(loaded, key) /\ ~GateIsOpen(key)))

\* C3 as stated: in the emitted document a channel's entry exists exactly
\* when its gate is open, or it existed in a loaded document and its gate is
\* closed, for every environment, convention overrides on channels included.
C3_AsStated == Succeeded => ChannelRule(Emitted)

\* C3 amended: in the document emitted by a run that sets no convention
\* variable addressing channels, a channel's entry exists exactly when its
\* gate is open, or it existed in a loaded document and its gate is closed.
C3_ChannelEntries == (Succeeded /\ ~ConventionUnder("channels")) => ChannelRule(Emitted)

\* A run that opened the whatsapp gate with an upper-case value, kept a
\* loaded entry behind a closed gate and had no entry for a third channel.
C3_Witness ==
    /\ Succeeded /\ ~ConventionUnder("channels")
    /\ EnvGet("WHATSAPP_ENABLED", "") = "TRUE" /\ ChannelExists(Emitted, "whatsapp")
    /\ ~GateIsOpen("slack") /\ ChannelExists(loaded, "slack") /\ ChannelExists(Emitted, "slack")
    /\ ~ChannelExists(Emitted, "discord")

AfterChannelStage == pc = "browser"

\* C4: a channel whose gate is closed is left by the channel stage as it was
\* loaded, present or absent; in particular slack, when only one of
\* SLACK_BOT_TOKEN and SLACK_APP_TOKEN is set, whatever SLACK_* field
\* variables are set.
C4_ClosedGateFrame ==
    AfterChannelStage =>
        /\ \A key \in ChannelKeys :
              ~GateIsOpen(key) => ChannelIn(config, key) = ChannelIn(loaded, key)
        /\ (EnvUnset("SLACK_BOT_TOKEN") # EnvUnset("SLACK_APP_TOKEN"))
              => ChannelIn(config, "slack") = ChannelIn(loaded, "slack")

\* SLACK_BOT_TOKEN and a SLACK_* field variable are set, SLACK_APP_TOKEN is
\* not, and the loaded slack entry is there after the channel stage.
C4_Witness ==
    /\ AfterChannelStage
    /\ EnvTrue("SLACK_BOT_TOKEN") /\ EnvUnset("SLACK_APP_TOKEN") /\ EnvTrue("SLACK_MODE")
    /\ ChannelExists(loaded, "slack")
    /\ ChannelIn(config, "slack") = ChannelIn(loaded, "slack")

\* The steps after the convention overrides were applied.
AfterOverrides == pc \in {"validate", "failed", "write", "caddy", "done"}

ConventionNames == {k \in DOMAIN env : StartsWith(k, ConventionPrefix)}

Terminated == pc \in {"done", "failed", "crashed"}
PassedValidator == pc \in {"write", "caddy", "done"}

NonEmpty(name) == EnvGet(name, "") # ""

\* The variables the validator reads.
AcceptedSignals ==
    {BUILTIN_PROVIDERS[i][1] : i \in 1..Len(BUILTIN_PROVIDERS)}
    \cup {CUSTOM_PROVIDERS[i].env : i \in 1..Len(CUSTOM_PROVIDERS)}
    \cup {"OPENCODE_API_KEY", "OPENCODE_ZEN_API_KEY", "AWS_ACCESS_KEY_ID",
          "AWS_SECRET_ACCESS_KEY", "OLLAMA_BASE_URL"}

\* A credential signal is present; ollama is the value that counts as the
\* OLLAMA_BASE_URL signal.
SignalPresent(ollama) ==
    \/ \E n \in AcceptedSignals \ {"AWS_ACCESS_KEY_ID", "AWS_SECRET_ACCESS_KEY", "OLLAMA_BASE_URL"} :
          NonEmpty(n)
    \/ NonEmpty("AWS_ACCESS_KEY_ID") /\ NonEmpty("AWS_SECRET_ACCESS_KEY")
    \/ ollama # ""

OnlyOllamaSet == DOMAIN env = {"OLLAMA_BASE_URL"}

Absent == [t |-> "absent"]
ValueAt(doc, path) == GetKeys(doc, path, Absent)

\* The paths of doc: the key sequences that lead through mappings to a node.
RECURSIVE PathsOf(_)
PathsOf(node) ==
    IF IsMap(node)
    THEN {<<>>} \cup UNION {{<<k>> \o q : q \in PathsOf(node.m[k])} : k \in DOMAIN node.m}
    ELSE {<<>>}

AfterLoading == pc = "gateway"

\* L is the merge of A and B at path p, where both hold a mapping: L holds a
\* mapping with the keys of both, A's value where only A has the key, and
\* B's value where B has the key unless both values are mappings.
MergedAt(A, B, L, p) ==
    /\ IsMap(ValueAt(L, p))
    /\ Keys(ValueAt(L, p)) = Keys(ValueAt(A, p)) \cup Keys(ValueAt(B, p))
    /\ \A k \in Keys(ValueAt(L, p)) :
          IF k \notin Keys(ValueAt(B, p))
          THEN ValueAt(L, p \o <<k>>) = ValueAt(A, p \o <<k>>)
          ELSE (IsMap(ValueAt(A, p \o <<k>>)) /\ IsMap(ValueAt(B, p \o <<k>>)))
               \/ ValueAt(L, p \o <<k>>) = ValueAt(B, p \o <<k>>)

\* C7: the loaded document is the deep merge of the bundled document A and
\* the persisted document B in which B wins: at the root and at every path
\* where both hold a mapping the keys of both are there, a key of A alone
\* keeps A's value, and a key of B holds exactly B's value (scalar, sequence
\* or mapping) unless both values are mappings, which are merged in turn.
C7_DeepMerge ==
    (AfterLoading /\ config_file.kind = "json") =>
        \A p \in PathsOf(LoadedCustom) \cap PathsOf(config_file.doc) :
            (IsMap(ValueAt(LoadedCustom, p)) /\ IsMap(ValueAt(config_file.doc, p)))
                => MergedAt(LoadedCustom, config_file.doc, config, p)

\* Both documents hold a mapping at a, with different keys, and a sequence
\* at b; the loaded document has both keys under a and B's sequence at b.
C7_Witness ==
    /\ AfterLoading /\ custom_file.kind = "json" /\ config_file.kind = "json"
    /\ ValueAt(custom_file.doc, <<"b">>) = List(<<Num(1), Num(2)>>)
    /\ ValueAt(config_file.doc, <<"b">>) = List(<<Num(3)>>)
    /\ ValueAt(custom_file.doc, <<"a", "j">>) = Str("x")
    /\ ValueAt(config_file.doc, <<"a", "k">>) = Str("p")
    /\ config = Map([a |-> Map([j |-> Str("x"), k |-> Str("p")]), b |-> List(<<Num(3)>>)])

\* C8 as stated: the document of every successful run holds a non-empty
\* value at agents.defaults.model.primary, for every loaded document and
\* environment, convention overrides included.
C8_AsStated == Succeeded => Truthy(PrimaryIn(Emitted))

\* C8 amended: the document of every successful run that sets no convention
\* variable addressing agents holds a non-empty value at
\* agents.defaults.model.primary.
C8_PrimaryExists == (Succeeded /\ ~ConventionUnder("agents")) => Truthy(PrimaryIn(Emitted))

\* Only the second OpenCode variable is set and the loaded primary is empty:
\* the validator passed and the emitted primary is the OpenCode model.
C8_Witness ==
    /\ Succeeded
    /\ DOMAIN env = {"OPENCODE_ZEN_API_KEY"}
    /\ PrimaryIn(loaded) = Str("")
    /\ PrimaryIn(Emitted) = Str("opencode/claude-opus-4-5")

\* The credential signal of an explicit provider, as C9 words it.
ExplicitSignal(key, ollama) ==
    CASE key = "amazon-bedrock" -> NonEmpty("AWS_ACCESS_KEY_ID") /\ NonEmpty("AWS_SECRET_ACCESS_KEY")
      [] key = "ollama" -> ollama # ""
      [] OTHER -> \E i \in 1..Len(CUSTOM_PROVIDERS) :
                     CUSTOM_PROVIDERS[i].key = key /\ NonEmpty(CUSTOM_PROVIDERS[i].env)

\* The entry a run builds for an explicit provider from its environment.
FreshEntry(key) ==
    CASE key = "amazon-bedrock" -> BedrockEntry
      [] key = "ollama" -> OllamaEntry(RStrip(EnvGet("OLLAMA_BASE_URL", ""), "/"))
      [] OTHER -> ProviderEntry(CHOOSE prov \in {CUSTOM_PROVIDERS[i] : i \in 1..Len(CUSTOM_PROVIDERS)} :
                                    prov.key = key)

InsertOrDelete(ollama) ==
    \A key \in ExplicitKeys :
        /\ Has(ProvidersIn(config), key) <=> ExplicitSignal(key, ollama)
        /\ Has(ProvidersIn(config), key) => ProvidersIn(config).m[key] = FreshEntry(key)

\* C9 as stated: without a bundled override, after the provider stage an
\* explicit provider is under models.providers exactly when its credential
\* signal is non-empty, for ollama OLLAMA_BASE_URL, and the entry is the
\* freshly built one.
C9_AsStated ==
    (AfterProviderStage /\ ~has_custom_config) => InsertOrDelete(EnvGet("OLLAMA_BASE_URL", ""))

\* C9 amended: the same, the ollama signal being OLLAMA_BASE_URL with its
\* trailing slashes removed.
C9_InsertOrDelete ==
    (AfterProviderStage /\ ~has_custom_config)
        => InsertOrDelete(RStrip(EnvGet("OLLAMA_BASE_URL", ""), "/"))

\* Stale entries of every explicit provider were loaded; the run set the
\* Moonshot key and base URL, replaced that entry and deleted the others.
C9_Witness ==
    /\ AfterProviderStage /\ ~has_custom_config
    /\ \A key \in ExplicitKeys : ValueAt(loaded, <<"models", "providers", key>>) = StaleEntry
    /\ DOMAIN env = {"MOONSHOT_API_KEY", "MOONSHOT_BASE_URL"}
    /\ get_nested(config, "models.providers.moonshot.baseUrl", Null) = Str("https://moon.example/v1")
    /\ IsMap(ProvidersIn(config))
    /\ Keys(ProvidersIn(config)) = {"moonshot", "acme"}

\* The credential signal of a provider key is not set.
SignalUnset(key) ==
    CASE key \in ExplicitKeys -> ~ExplicitSignal(key, EnvGet("OLLAMA_BASE_URL", ""))
      [] key = "opencode" -> ~NonEmpty("OPENCODE_API_KEY") /\ ~NonEmpty("OPENCODE_ZEN_API_KEY")
      [] key \in BuiltinKeys \ {"opencode"} ->
            \A i \in 1..Len(BUILTIN_PROVIDERS) :
                BUILTIN_PROVIDERS[i][3] = key => ~NonEmpty(BUILTIN_PROVIDERS[i][1])
      [] OTHER -> TRUE

\* C10: with a bundled override document loaded, every entry under
\* models.providers, and models.bedrockDiscovery, that was loaded and whose
\* credential signal is not set is there unchanged after the provider stage.
C10_NothingRemoved ==
    (AfterProviderStage /\ has_custom_config) =>
        /\ IsMap(ProvidersIn(loaded)) =>
              \A key \in Keys(ProvidersIn(loaded)) :
                  SignalUnset(key) =>
                      ValueAt(config, <<"models", "providers", key>>) = ProvidersIn(loaded).m[key]
        /\ SignalUnset("amazon-bedrock") =>
              ValueAt(config, <<"models", "bedrockDiscovery">>)
                  = ValueAt(loaded, <<"models", "bedrockDiscovery">>)

\* A bundled document with ollama, amazon-bedrock and built-in entries and
\* bedrockDiscovery was loaded, a catalog credential is set, none of theirs
\* is, and all are there after the provider stage beside the new entry.
C10_Witness ==
    /\ AfterProviderStage /\ has_custom_config
    /\ DOMAIN env = {"VENICE_API_KEY"}
    /\ IsMap(ProvidersIn(loaded))
    /\ Keys(ProvidersIn(loaded)) = {"groq", "minimax", "ollama", "amazon-bedrock"}
    /\ Keys(ProvidersIn(config)) = {"groq", "minimax", "ollama", "amazon-bedrock", "venice"}
    /\ ValueAt(config, <<"models", "bedrockDiscovery">>) = Map([enabled |-> Bool(FALSE)])


\* The proper prefixes of a key sequence.
Prefixes(keys) == {SubSeq(keys, 1, n) : n \in 1..(Len(keys) - 1)}

\* The run sets exactly one convention variable, k.
OnlyConvention(k) == ConventionNames = {k}

\* C11: set_nested creates the intermediate mappings a path needs and
\* overwrites an intermediate node that is not a mapping with one, and then
\* completes the assignment: step 13 of a run with one convention variable
\* never ends the run, every node above the variable's path is a mapping
\* afterwards and the auto-typed value is at the path.
C11_AsStated ==
    [][\A k \in ConventionNames :
         (pc = "overrides" /\ OnlyConvention(k)) =>
            /\ pc' = "validate"
            /\ \A p \in Prefixes(Split(ConventionPath(k), ".")) : IsMap(ValueAt(config', p))
            /\ ValueAt(config', Split(ConventionPath(k), ".")) = auto_type(env[k])]_vars

\* The defaults get_nested is called with.
RoundTripDefaults == {Null, Str("/hooks")}

\* C12: set_nested followed by get_nested with the same path returns the
\* value that was set: after step 13 of a run with one convention variable,
\* get_nested on the document the step was given, at the variable's path,
\* returns the auto-typed value whatever the default.
C12_AsStated ==
    [][\A k \in ConventionNames :
         (pc = "overrides" /\ OnlyConvention(k)) =>
            \A default \in RoundTripDefaults :
                get_nested(config', ConventionPath(k), default) = auto_type(env[k])]_vars

\* One key sequence is a prefix of the other.
IsPrefixOf(p, q) == Len(p) <= Len(q) /\ SubSeq(q, 1, Len(p)) = p
Overlap(p, q) == IsPrefixOf(p, q) \/ IsPrefixOf(q, p)
ConventionSeq(k) == Split(ConventionPath(k), ".")

\* No convention variable later than k in lexicographic order addresses a
\* path that overlaps the path of k.
LastWordOn(k) ==
    \A l \in ConventionNames \ {k} :
        StrLess(k, l) => ~Overlap(ConventionSeq(k), ConventionSeq(l))

\* What steps 13, 15 and 16 make of the state they are given, the
\* authentication snippet apart: the overrides land in lexicographic order of
\* variable name, the file holds the resolved document, the hooks snippet is
\* the one the document and the environment determine.
DeterminedStep ==
    /\ (pc = "overrides" /\ pc' = "validate") =>
          \A k \in ConventionNames :
              LastWordOn(k) => ValueAt(config', ConventionSeq(k)) = auto_type(env[k])
    /\ pc = "write" => config_file' = Json(config) /\ config' = config
    /\ (pc = "caddy" /\ pc' = "done") => caddy_files'.hooks = HooksSnippet(config_file.doc)

\* The one authentication snippet a run's environment stands for.
TheAuthSnippet == CHOOSE a \in AuthSnippets : a # NoAuth \/ AuthSnippets = {NoAuth}

\* C13 as stated: the output document and both artifacts of a run are the
\* ones its environment and starting documents determine, the
\* authentication snippet included.
C13_AsStated ==
    [][DeterminedStep /\ (pc = "caddy" => caddy_files'.auth = TheAuthSnippet)]_vars

\* C13: two runs from the same environment and starting documents emit the
\* same document and the same hooks snippet, and the same authentication
\* snippet when AUTH_PASSWORD is unset or empty; the convention overrides are
\* applied in lexicographic order of variable name, so that of two overrides
\* on overlapping paths the later name has the last word.
C13_Deterministic ==
    [][DeterminedStep
       /\ ((pc = "caddy" /\ ~EnvTrue("AUTH_PASSWORD")) => caddy_files'.auth = NoAuth)]_vars

\* A run with an override of a and one of a.k succeeded: a.k holds the value
\* of the later name inside the mapping the earlier one put at a.
C13_Witness ==
    /\ Succeeded
    /\ ConventionNames = {"OPENCLAW_JSON__a", "OPENCLAW_JSON__a__k"}
    /\ env["OPENCLAW_JSON__a"] = "{}"
    /\ ValueAt(Emitted, <<"a">>) = Map([k |-> Num(1)])
    /\ caddy_files.auth = NoAuth

ChannelOf(key) == CHOOSE i \in 1..Len(CHANNELS) : CHANNELS[i].key = key

\* The paths inside a channel's entry that this run sets: enabled, the token
\* fields, and the path of every field mapping whose variable is set.
PathsSetByRun(key) ==
    LET ch == CHANNELS[ChannelOf(key)]
    IN {<<"enabled">>}
       \cup {<<ch.tokenField[i]>> : i \in 1..Len(ch.tokenField)}
       \cup {Split(ch.fields[i][2], ".") : i \in {j \in 1..Len(ch.fields) : ~EnvUnset(ch.fields[j][1])}}

\* The paths of node that end at a value that is not a mapping, or at an
\* empty one.
LeavesOf(node) == {p \in PathsOf(node) : ~IsMap(ValueAt(node, p)) \/ ValueAt(node, p) = EmptyMap}

\* Everything of the loaded entry that lies off the paths this run sets is
\* in the entry as it was loaded.
RetainsLoaded(key) ==
    \A p \in PathsOf(ChannelIn(loaded, key)) :
        (\A q \in PathsSetByRun(key) : ~Overlap(p, q)) =>
            ValueAt(ChannelIn(config, key), p) = ValueAt(ChannelIn(loaded, key), p)

\* The entry holds enabled=true and a value at the path of every field
\* mapping whose variable is set, and nothing else.
OnlySetByRun(key) ==
    /\ ValueAt(ChannelIn(config, key), <<"enabled">>) = Bool(TRUE)
    /\ \A q \in PathsSetByRun(key) : ValueAt(ChannelIn(config, key), q) # Absent
    /\ \A p \in LeavesOf(ChannelIn(config, key)) : p \in PathsSetByRun(key)

\* C14: after the channel stage, an open-gate channel with the merge flag
\* (telegram, discord, slack) has kept everything of its loaded entry that
\* this run does not set, and the open-gate channel without it (whatsapp)
\* holds only enabled=true and the fields whose variables are set.
C14_MergeFlag ==
    AfterChannelStage =>
        \A key \in ChannelKeys :
            GateIsOpen(key) =>
                IF key = "whatsapp" THEN OnlySetByRun(key)
                ELSE IsMap(ChannelIn(config, key)) /\ RetainsLoaded(key)

\* Both the telegram and the whatsapp gate are open over loaded entries: the
\* telegram entry has the new token beside the loaded dmPolicy, the whatsapp
\* entry has lost the loaded selfChatMode.
C14_Witness ==
    /\ AfterChannelStage
    /\ GateIsOpen("telegram") /\ GateIsOpen("whatsapp")
    /\ ValueAt(ChannelIn(loaded, "telegram"), <<"botToken">>) = Str("old")
    /\ ValueAt(ChannelIn(config, "telegram"), <<"botToken">>) = Str("123:abc")
    /\ ValueAt(ChannelIn(config, "telegram"), <<"dmPolicy">>) = Str("pairing")
    /\ ValueAt(ChannelIn(loaded, "whatsapp"), <<"selfChatMode">>) = Bool(TRUE)
    /\ ChannelIn(config, "whatsapp") = Map([enabled |-> Bool(TRUE)])

\* The file is not there, or what is in it does not parse.
Unparsable(file) == file.kind # "json"

\* C15: a missing or unparsable document at either loading stage is treated
\* as absent and never ends the run: the bundled stage goes on to the
\* persisted stage with the empty document and the flag unset (the flag is
\* set exactly when the bundled document was found and parsed), the
\* persisted stage goes on with the running result as it is, and a run
\* whose bundled document did not parse still deletes stale built-in entries.
C15_AsStated ==
    [][/\ pc = "load_custom" =>
            /\ has_custom_config' = (custom_file.kind = "json")
            /\ Unparsable(custom_file) => (pc' = "load_persisted" /\ config' = EmptyMap)
       /\ (pc = "load_persisted" /\ Unparsable(config_file)) =>
            (pc' = "gateway" /\ config' = config)
       /\ (pc = "builtins" /\ pc' = "primary" /\ Unparsable(custom_file)) =>
            NoBuiltinEntry(config')]_vars

\* Steps 2 to 13 in the order main takes them, each from the document of the
\* step before, the flag and the two resolved signals being those of a run
\* over the files and the environment of this state.
StepOf(i, cfg) ==
    CASE i = 2 -> GatewayStep(cfg)
      [] i = 3 -> AgentsStep(cfg)
      [] i = 4 -> CustomProvidersStep(cfg, CustomFound)
      [] i = 5 -> BedrockStep(cfg, CustomFound)
      [] i = 6 -> OllamaStep(cfg, CustomFound)
      [] i = 7 -> BuiltinsStep(cfg, CustomFound)
      [] i = 8 -> PrimaryStep(cfg, OpencodeKey, OllamaUrl)
      [] i = 9 -> DeepgramStep(cfg)
      [] i = 10 -> ChannelsStep(cfg)
      [] i = 11 -> BrowserStep(cfg)
      [] i = 12 -> HooksStep(cfg)
      [] i = 13 -> apply_convention_overrides(cfg)

RECURSIVE StepsFrom(_, _)
StepsFrom(i, cfg) ==
    IF cfg = Raise \/ i > 13 THEN cfg ELSE StepsFrom(i + 1, StepOf(i, cfg))

\* The document a run started now would hand to the validator: at the end
\* of a run the persisted file is the document that run emitted.
NextRunDocument ==
    IF LoadedCustom = Raise THEN Raise ELSE StepsFrom(2, MergedPersisted(LoadedCustom))

NextRunSucceeds ==
    /\ NextRunDocument # Raise
    /\ HasProvider(OpencodeKey, OllamaUrl)
    /\ HooksSnippet(NextRunDocument) # Raise

\* C16 as stated: a run that succeeded has emitted a fixed point: a second
\* run with the same environment and the same bundled override document,
\* taking the emitted document as the persisted one, succeeds and emits the
\* same document.
C16_AsStated == Succeeded => (NextRunSucceeds /\ NextRunDocument = Emitted)

\* Wherever the bundled override document holds a mapping, the document the
\* run loaded holds one too: no persisted node that is not a mapping has
\* taken the place of a bundled mapping.
NoShadowedMapping ==
    \A p \in PathsOf(LoadedCustom) :
        IsMap(ValueAt(LoadedCustom, p)) => IsMap(ValueAt(loaded, p))

\* C16 amended: the fixed point, for a run whose loaded document holds a
\* mapping wherever the bundled override document does and that sets no
\* convention variable addressing channels or browser.
C16_FixedPoint ==
    (Succeeded /\ NoShadowedMapping
        /\ ~ConventionUnder("channels") /\ ~ConventionUnder("browser"))
    => (NextRunSucceeds /\ NextRunDocument = Emitted)

\* A run over the bundled override and a persisted document rewrote the
\* whatsapp entry and applied two overlapping overrides, and the document it
\* emitted is neither of the documents it started from.
C16_Witness ==
    /\ Succeeded
    /\ custom_file = Json(BundledRerun)
    /\ GateIsOpen("whatsapp")
    /\ ChannelIn(Emitted, "whatsapp") = Map([enabled |-> Bool(TRUE)])
    /\ ValueAt(loaded, <<"tools", "allow">>) = List(<<Str("write")>>)
    /\ Emitted # loaded /\ Emitted # BundledRerun
    /\ NoShadowedMapping /\ ConventionNames = {}
    /\ NextRunDocument = Emitted

Failing(p) == p \in {"failed", "crashed"}
OutputsUntouched == UNCHANGED <<config_file, caddy_files>>

\* Some field mapping of the list has type int and a variable that is set to
\* something int() does not parse.
MalformedInteger(fields) ==
    \E i \in 1..Len(fields) :
        /\ fields[i][3] = "int"
        /\ ~EnvUnset(fields[i][1])
        /\ ~IsIntLiteral(env[fields[i][1]])

\* The step about to be taken applies a field mapping with a malformed
\* integer: an open channel's at step 10, the browser's at step 11.
AppliesMalformedInteger ==
    \/ pc = "channels" /\ \E i \in 1..Len(CHANNELS) :
                              GateOpen(CHANNELS[i]) /\ MalformedInteger(CHANNELS[i].fields)
    \/ pc = "browser" /\ EnvTrue("BROWSER_CDP_URL") /\ MalformedInteger(BROWSER_FIELDS)

\* No step before the write touches the output document or the artifacts.
NothingWrittenBeforeValidation ==
    pc \notin {"write", "caddy"} => OutputsUntouched

\* C17 as stated: every failing run leaves the outputs untouched: no step
\* before the validator has passed writes, and the step on which a run
\* fails, whichever it is, writes nothing.
C17_AsStated ==
    [][NothingWrittenBeforeValidation /\ (Failing(pc') => OutputsUntouched)]_vars

\* C17 for the two failures it names: a run that ends on the validator's
\* fatal condition, or on a malformed integer for a set variable of an
\* applied field mapping, ends before the output document and the two
\* artifacts are written; the malformed integer does end the run and is not
\* defaulted.
C17_FailsBeforeWriting ==
    [][/\ NothingWrittenBeforeValidation
       /\ pc' = "failed" => (pc = "validate" /\ OutputsUntouched)
       /\ AppliesMalformedInteger => (pc' = "crashed" /\ OutputsUntouched)]_vars

\* A run over a persisted document ended on TELEGRAM_TEXT_CHUNK_LIMIT=4k
\* with the telegram gate open, the persisted file as it was loaded.
C17_Witness ==
    /\ pc = "crashed"
    /\ GateIsOpen("telegram")
    /\ EnvGet("TELEGRAM_TEXT_CHUNK_LIMIT", "") = "4k"
    /\ config_file = Json(PersistedChannels)
    /\ loaded = PersistedChannels
    /\ caddy_files = [auth |-> "", hooks |-> [t |-> "absent"]]

\* The primary model of the emitted document was chosen by walking the
\* priority list: no override variable, no primary in the loaded document,
\* some signal set, and no convention variable on agents or models.
ChosenByPriority ==
    /\ Succeeded
    /\ ~NonEmpty("OPENCLAW_PRIMARY_MODEL")
    /\ ~Truthy(PrimaryIn(loaded))
    /\ SignalledEntries # {}
    /\ ~ConventionUnder("agents") /\ ~ConventionUnder("models")

\* The provider a model identifier names: the text before the first slash.
ProviderPrefix(model) == Split(model, "/")[1]

\* prefix is a built-in provider whose credential variable is set, or an
\* explicit provider whose signal is set and whose entry is under
\* models.providers of doc.
ActiveProvider(prefix, doc) ==
    \/ \E i \in 1..Len(BUILTIN_PROVIDERS) :
          BUILTIN_PROVIDERS[i][3] = prefix /\ NonEmpty(BUILTIN_PROVIDERS[i][1])
    \/ prefix = "opencode" /\ (NonEmpty("OPENCODE_API_KEY") \/ NonEmpty("OPENCODE_ZEN_API_KEY"))
    \/ /\ prefix \in ExplicitKeys
       /\ ExplicitSignal(prefix, RStrip(EnvGet("OLLAMA_BASE_URL", ""), "/"))
       /\ Has(ProvidersIn(doc), prefix)

\* C18: the primary model chosen by walking the priority list in a
\* successful run names a provider that is active in the run; the
\* amazon-bedrock model is chosen only when both AWS_ACCESS_KEY_ID and
\* AWS_SECRET_ACCESS_KEY are set.
C18_AsStated ==
    ChosenByPriority =>
        /\ PrimaryIn(Emitted).t = "str"
        /\ ActiveProvider(ProviderPrefix(PrimaryIn(Emitted).s), Emitted)
        /\ ProviderPrefix(PrimaryIn(Emitted).s) = "amazon-bedrock"
              => (NonEmpty("AWS_ACCESS_KEY_ID") /\ NonEmpty("AWS_SECRET_ACCESS_KEY"))
====
